---------------------------- MODULE Spec2Model ----------------------------
(***************************************************************************)
(* Model of the photo task planner (src/app.py): the geospatial utilities, *)
(* the local JSON history store, the provider fallback chains and          *)
(* PhotoTaskPlanner.generate_task with its repeat suppression.             *)
(***************************************************************************)
EXTENDS Integers, Sequences, FiniteSets, TLC

(***************************************************************************)
(* Bounds of the model.                                                    *)
(***************************************************************************)
MaxPois == 3        \* longest candidate list handed to build_walkable_route
MaxStopCap == 4     \* largest stop cap handed to build_walkable_route
MaxSeed == 1        \* largest seed of the random choices
MaxHist == 3        \* longest run of arbitrary entries in a history
MaxSaves == 9       \* most save_task calls in a row
MaxGens == 2        \* most runs of the generate handler
MaxTags == 2        \* most hints (tag values, place types) a POI carries
MaxResults == 42    \* longest answer of a POI provider
MaxRuns == 3        \* most runs of the generate handler for one photo type and place
MaxStarted == 4     \* most save_task calls begun by the sessions together
MaxRepairs == 4     \* most save_task calls on a history file found malformed
MaxDay == 2         \* last calendar day

(***************************************************************************)
(* Generic helpers on sequences.                                           *)
(***************************************************************************)
Range(s) == {s[i] : i \in 1..Len(s)}

Min2(a, b) == IF a <= b THEN a ELSE b

Abs(x) == IF x < 0 THEN -x ELSE x

\* A remove that leaves the list as it is.
remove_nothing(s, x) == s

\* Python's list.remove(x): drop the first element equal to x.
RECURSIVE remove(_, _)
remove(s, x) ==
  IF s = <<>> THEN <<>>
  ELSE IF Head(s) = x THEN Tail(s)
  ELSE <<Head(s)>> \o remove(Tail(s), x)

(***************************************************************************)
(* Python strings.  A string is a TLA+ string; Head, Tail, Len, SubSeq and *)
(* \o act on its characters.                                               *)
(***************************************************************************)
UpperChars == "ABCDEFGHIJKLMNOPQRSTUVWXYZ"
LowerChars == "abcdefghijklmnopqrstuvwxyz"

CharAt(s, i) == SubSeq(s, i, i)

\* 1-based position of the first character c in s, 0 when absent.
IndexIn(s, c) ==
  LET hits == { i \in 1..Len(s) : CharAt(s, i) = c }
  IN  IF hits = {} THEN 0 ELSE CHOOSE i \in hits : \A k \in hits : i <= k

\* The lower-case and the upper-case letter of every letter.
LowerOf ==
  [c \in { CharAt(UpperChars, k) : k \in 1..Len(UpperChars) } |->
     CharAt(LowerChars, IndexIn(UpperChars, c))]

UpperOf ==
  [c \in { CharAt(LowerChars, k) : k \in 1..Len(LowerChars) } |->
     CharAt(UpperChars, IndexIn(LowerChars, c))]

lower_char(c) == IF c \in DOMAIN LowerOf THEN LowerOf[c] ELSE c

upper_char(c) == IF c \in DOMAIN UpperOf THEN UpperOf[c] ELSE c

IsLetter(c) == c \in DOMAIN LowerOf \/ c \in DOMAIN UpperOf

\* str.lower(), characters i..j of s
RECURSIVE lower_range(_, _, _)
lower_range(s, i, j) ==
  IF i > j THEN ""
  ELSE IF i = j THEN lower_char(CharAt(s, i))
  ELSE LET m == (i + j) \div 2
       IN  lower_range(s, i, m) \o lower_range(s, m + 1, j)

lower(s) == lower_range(s, 1, Len(s))

\* str.title(), characters i..j of s: a letter is upper-cased after a
\* non-letter and at the start, lower-cased after a letter.
RECURSIVE title_range(_, _, _)
title_range(s, i, j) ==
  IF i > j THEN ""
  ELSE IF i = j
  THEN IF i > 1 /\ IsLetter(CharAt(s, i - 1))
       THEN lower_char(CharAt(s, i))
       ELSE upper_char(CharAt(s, i))
  ELSE LET m == (i + j) \div 2
       IN  title_range(s, i, m) \o title_range(s, m + 1, j)

title(s) == title_range(s, 1, Len(s))

\* sub in s
contains(s, sub) ==
  \E i \in 1..(Len(s) - Len(sub) + 1) : SubSeq(s, i, i + Len(sub) - 1) = sub

\* s.startswith(prefix)
startswith(s, prefix) ==
  Len(prefix) <= Len(s) /\ SubSeq(s, 1, Len(prefix)) = prefix

endswith(s, suffix) ==
  Len(suffix) <= Len(s) /\ SubSeq(s, Len(s) - Len(suffix) + 1, Len(s)) = suffix

\* s.split(sep)[-1] for a one-character sep: the text after the last sep.
RECURSIVE last_segment(_, _)
last_segment(s, sep) ==
  IF IndexIn(s, sep) = 0 THEN s
  ELSE last_segment(SubSeq(s, IndexIn(s, sep) + 1, Len(s)), sep)

\* str.strip(): drop leading and trailing blanks.
RECURSIVE lstrip(_)
lstrip(s) == IF s # "" /\ Head(s) = " " THEN lstrip(Tail(s)) ELSE s

RECURSIVE rstrip(_)
rstrip(s) ==
  IF s # "" /\ CharAt(s, Len(s)) = " " THEN rstrip(SubSeq(s, 1, Len(s) - 1))
  ELSE s

strip(s) == rstrip(lstrip(s))

\* sep.join(list)
RECURSIVE join(_, _)
join(sep, list) ==
  IF list = <<>> THEN ""
  ELSE IF Len(list) = 1 THEN list[1]
  ELSE list[1] \o sep \o join(sep, Tail(list))

\* str(n) for 0 <= n
Digits == "0123456789"

RECURSIVE str(_)
str(n) ==
  IF n < 10 THEN CharAt(Digits, n + 1)
  ELSE str(n \div 10) \o CharAt(Digits, (n % 10) + 1)

(***************************************************************************)
(* Geospatial utilities.                                                   *)
(*                                                                         *)
(* Coordinates are integers in units of 1e-3 degree.  Angles and the       *)
(* values of sin/cos are fixed-point numbers with scale FP = 1e8; the      *)
(* distance is returned in millimetres.  Within +-18 units (about 2 km)    *)
(* of (0, 0) the squares of the half-angle sines fit the 32-bit integers   *)
(* of the checker as they are; for points further apart they are taken at  *)
(* a coarser scale, which keeps the distance to within 1 part in 10^4, for *)
(* points up to a few degrees from (0, 0).                                 *)
(***************************************************************************)
FP == 100000000

\* The element of a one-element set: the value of an optional number, and
\* the({ e : x \in {v} }) for e with x bound to the value of v.
the(opt) == CHOOSE v \in opt : TRUE

EarthRadiusKm == 6371   \* R = 6371000 m, kept in km so that R * c fits

RECURSIVE isqrt(_)
isqrt(n) ==
  IF n < 2 THEN n
  ELSE the({ IF (s + 1) * (s + 1) > n THEN s ELSE s + 1 :
             s \in {2 * isqrt(n \div 4)} })

\* a * b / FP for 0 <= a <= FP and 0 <= b < 10^9, without overflow.
mulfix(a, b) ==
  LET ah == a \div 10000
      al == a % 10000
      bh == b \div 10000
      bl == b % 10000
  IN  ah * bh + (ah * bl + al * bh) \div 10000 + (al * bl) \div FP

\* math.radians: d (1e-3 degree) * pi / 180 = d * 1745.3293e-8, scale FP.
radians(d) ==
  LET m == Abs(d)
      r == m * 1745 + (m * 3293) \div 10000
  IN  IF d < 0 THEN -r ELSE r

\* math.sin by its Taylor series x - x^3/6 (x small), scale FP.
sin(x) ==
  LET m  == Abs(x)
      x2 == mulfix(Min2(m, FP), m)
      x3 == mulfix(Min2(x2, FP), m)
      r  == m - x3 \div 6
  IN  IF x < 0 THEN -r ELSE r

\* math.cos by its Taylor series 1 - x^2/2 + x^4/24 (x small), scale FP.
cos(x) ==
  LET m  == Abs(x)
      x2 == mulfix(Min2(m, FP), m)
      x4 == mulfix(Min2(x2, FP), x2)
  IN  FP - x2 \div 2 + x4 \div 24

\* The scale at which the squares of the half-angle sines s1 and s2 are
\* taken.
square_scale(s1, s2) ==
  IF s1 < 32768 /\ s2 < 32768 THEN 1
  ELSE (IF s1 < s2 THEN s2 ELSE s1) \div 20000 + 1

\* R * x / 100 without the product R * x.
times_R(x) ==
  EarthRadiusKm * (x \div 100) + (EarthRadiusKm * (x % 100)) \div 100

\* The distance with the central angle taken once: R * atan2(...).
haversine_distance_half_angle(lat1, lon1, lat2, lon2) ==
  LET phi1    == radians(lat1)
      phi2    == radians(lat2)
      dphi    == radians(lat2 - lat1)
      dlambda == radians(lon2 - lon1)
      a(s1, s2, cc, k) ==
        the({ q1 * q1 + mulfix(cc, q2 * q2) :
              q1 \in {s1 \div k}, q2 \in {s2 \div k} })
      c(h)    == the({ h + mulfix(h2, h) \div 6 : h2 \in {mulfix(h, h)} })
      R_c(n, k) ==
        the({ the({ times_R(x) : x \in {c(h)} }) : h \in {k * isqrt(n)} })
      scaled(s1, s2, cc) ==
        the({ the({ R_c(n, k) : n \in {a(s1, s2, cc, k)} }) :
              k \in {square_scale(s1, s2)} })
  IN  the({ scaled(s1, s2, mulfix(c1, c2)) :
            s1 \in {sin(Abs(dphi) \div 2)}, s2 \in {sin(Abs(dlambda) \div 2)},
            c1 \in {cos(phi1)}, c2 \in {cos(phi2)} })

haversine_distance(lat1, lon1, lat2, lon2) ==
  LET phi1    == radians(lat1)
      phi2    == radians(lat2)
      dphi    == radians(lat2 - lat1)
      dlambda == radians(lon2 - lon1)
      \* a = sin(dphi/2)^2 + cos(phi1) cos(phi2) sin(dlambda/2)^2,
      \* scale (FP / k)^2
      a(s1, s2, cc, k) ==
        the({ q1 * q1 + mulfix(cc, q2 * q2) :
              q1 \in {s1 \div k}, q2 \in {s2 \div k} })
      \* atan2(sqrt(a), sqrt(1-a)) = asin(sqrt(a)) = h + h^3/6, scale FP
      c(h)    == the({ 2 * (h + mulfix(h2, h) \div 6) : h2 \in {mulfix(h, h)} })
      R_c(n, k) ==
        the({ the({ times_R(x) : x \in {c(h)} }) : h \in {k * isqrt(n)} })
      scaled(s1, s2, cc) ==
        the({ the({ R_c(n, k) : n \in {a(s1, s2, cc, k)} }) :
              k \in {square_scale(s1, s2)} })
      \* sin(x/2)^2 = sin(|x|/2)^2: halve the magnitude, \div rounds down
  IN  the({ scaled(s1, s2, mulfix(c1, c2)) :
            s1 \in {sin(Abs(dphi) \div 2)}, s2 \in {sin(Abs(dlambda) \div 2)},
            c1 \in {cos(phi1)}, c2 \in {cos(phi2)} })

\* A selection that ignores the distance and takes the head of the list.
nearest_is_first(remaining, lat, lon) == remaining[1]

\* min(remaining, key=distance): the first element of least distance.
nearest(remaining, lat, lon) ==
  LET distance(p) == haversine_distance(lat, lon, p.lat, p.lon)
      least(d) == CHOOSE i \in 1..Len(remaining) :
                    /\ \A j \in 1..Len(remaining) : d[i] <= d[j]
                    /\ \A j \in 1..(i-1) : d[j] > d[i]
  IN  the({ remaining[least(d)] :
            d \in {[i \in 1..Len(remaining) |-> distance(remaining[i])]} })

RECURSIVE route_loop(_, _, _, _, _)
route_loop(n, remaining, lat, lon, route) ==
  IF n = 0 THEN route
  ELSE the({ the({ route_loop(n - 1, rest, p.lat, p.lon, Append(route, p)) :
                   rest \in {remove(remaining, p)} }) :
             p \in {nearest(remaining, lat, lon)} })

build_walkable_route(pois, start_lat, start_lon, max_pois) ==
  IF pois = <<>> \/ max_pois <= 0 THEN <<>>
  ELSE the({ route_loop(Min2(max_pois, Len(remaining)), remaining, start_lat,
                        start_lon, <<>>) : remaining \in {pois} })


(***************************************************************************)
(* Points of interest.  A POI is the dict built by fetch_pois (Google      *)
(* Places) or fetch_pois_overpass (OpenStreetMap): id, name ("" when the   *)
(* provider had none), lat, lon, tags, and source for a Google place.      *)
(* In a tag mapping "" stands for an absent key.                           *)
(***************************************************************************)
OsmTags(name, ref, tourism, amenity, leisure, natural, man_made, shop) ==
  [type |-> "", types |-> <<>>, name |-> name, ref |-> ref,
   tourism |-> tourism, amenity |-> amenity, leisure |-> leisure,
   natural |-> natural, man_made |-> man_made, shop |-> shop]

GoogleTags(types) ==
  [type |-> "google_place", types |-> types, name |-> "", ref |-> "",
   tourism |-> "", amenity |-> "", leisure |-> "", natural |-> "",
   man_made |-> "", shop |-> ""]

OsmPoi(id, name, lat, lon, tags) ==
  [id |-> id, name |-> name, lat |-> lat, lon |-> lon, tags |-> tags]

GooglePoi(id, name, lat, lon, tags) ==
  [id |-> id, name |-> name, lat |-> lat, lon |-> lon, tags |-> tags,
   source |-> "Google Places"]

\* The POIs of the model: two of them at the same distance from (0, 0),
\* two at the same place, one unnamed.
PoiA == OsmPoi("node/1", "Ada Park", 1, 0,
               OsmTags("Ada Park", "", "", "", "park", "", "", ""))
PoiB == OsmPoi("node/2", "Bay Pier", 0, 1,
               OsmTags("Bay Pier", "", "", "", "", "", "pier", ""))
PoiC == GooglePoi("gp3", "Cafe Long", 3, 1, GoogleTags(<<"cafe", "food">>))
PoiD == OsmPoi("way/4", "", 3, 1,
               OsmTags("", "", "viewpoint", "", "", "", "", ""))
PoiE == OsmPoi("node/5", "East Market", -2, 3,
               OsmTags("East Market", "", "", "marketplace", "", "", "", ""))

PoiPool == { PoiA, PoiB, PoiC, PoiD, PoiE }

Origins == { <<0, 0>>, <<3, 1>>, <<-1, 2>> }

\* The sequences of at most n pairwise different elements of S.
NoRepeat(q) == \A i, j \in 1..Len(q) : i # j => q[i] # q[j]

RECURSIVE DistinctSeqs(_, _)
DistinctSeqs(S, n) ==
  IF n = 0 THEN { <<>> }
  ELSE LET shorter == DistinctSeqs(S, n - 1)
           longer  == { Append(q, x) : q \in shorter, x \in S }
       IN  shorter \cup { q \in longer : NoRepeat(q) }

VARIABLES
  r_pois,      \* build_walkable_route: the candidate list
  r_start,     \* build_walkable_route: <<start_lat, start_lon>>
  r_max,       \* build_walkable_route: max_pois
  r_route,     \* build_walkable_route: the returned route
  r_done       \* build_walkable_route has returned

route_vars == <<r_pois, r_start, r_max, r_route, r_done>>

RouteIdle ==
  /\ r_pois = <<>> /\ r_start = <<0, 0>> /\ r_max = 0
  /\ r_route = <<>> /\ r_done = FALSE

\* A caller picks the arguments of build_walkable_route: candidates with
\* pairwise different identifiers, an origin and a stop cap.
RouteInit ==
  /\ r_pois \in DistinctSeqs(PoiPool, MaxPois)
  /\ r_start \in Origins
  /\ r_max \in 0..MaxStopCap
  /\ r_route = <<>>
  /\ r_done = FALSE

BuildRoute ==
  /\ ~r_done
  /\ r_route' = build_walkable_route(r_pois, r_start[1], r_start[2], r_max)
  /\ r_done' = TRUE
  /\ UNCHANGED <<r_pois, r_start, r_max>>

(***************************************************************************)
(* Control flow of a block of code: it returns a value, raises, or falls   *)
(* through to the statement after it.                                      *)
(***************************************************************************)
None == [none |-> TRUE]

Return(v) == [t |-> "return", v |-> v]
Raise == [t |-> "raise", v |-> None]
Fall == [t |-> "fall", v |-> None]

\* A handler that lets the exception through.
except_nothing(block) == block

\* try: block / except Exception: (warning) -- the exception is swallowed
\* and control falls through to the statement after the try statement.
except_Exception(block) == IF block.t = "raise" THEN Fall ELSE block

(***************************************************************************)
(* What a provider does with one request: it answers with data ("ok"),     *)
(* the connection fails ("neterr"), the request times out ("timeout"), it  *)
(* answers with a non-success status ("http") or with an empty result      *)
(* ("empty").                                                              *)
(***************************************************************************)
FailureKinds == {"neterr", "timeout", "http", "empty"}

Failures == { [kind |-> k] : k \in FailureKinds }

\* requests.get(..., timeout=...) raises on a connection error or timeout,
\* r.raise_for_status() on a non-success status.
request_raises(resp) == resp.kind \in {"neterr", "timeout", "http"}

(***************************************************************************)
(* Location resolution: geocode_location, Google Maps then OpenStreetMap.  *)
(***************************************************************************)
GOOGLE_MAPS_KEY == "GOOGLE_MAPS_KEY"
OPENWEATHER_KEY == "OPENWEATHER_KEY"

Location(lat, lon, display_name, source) ==
  [lat |-> lat, lon |-> lon, display_name |-> display_name, source |-> source]

\* The answers of the two geocoding providers: a place, or a failure.
GeoAnswers(points) ==
  { [kind |-> "ok", lat |-> pt[1], lon |-> pt[2]] : pt \in points } \cup Failures

geocode_google_block(query, secrets, g) ==
  IF GOOGLE_MAPS_KEY \notin secrets THEN Fall
  ELSE IF request_raises(g) THEN Raise
  ELSE IF g.kind = "ok"        \* data.get("status") == "OK"
       THEN Return(Location(g.lat, g.lon, query \o ", formatted", "Google Maps"))
       ELSE Fall

geocode_osm_block(query, o) ==
  IF request_raises(o) THEN Raise
  ELSE IF o.kind = "ok"        \* if data:
       THEN Return(Location(o.lat, o.lon, query \o ", display", "OpenStreetMap"))
       ELSE Fall

\* Only the primary provider is asked.
geocode_location_primary_only(query, secrets, g, o) ==
  LET b1 == except_Exception(geocode_google_block(query, secrets, g))
  IN  IF b1.t # "fall" THEN b1 ELSE Return(None)

geocode_location(query, secrets, g, o) ==
  LET b1 == except_Exception(geocode_google_block(query, secrets, g))
  IN  IF b1.t # "fall" THEN b1
      ELSE LET b2 == except_Exception(geocode_osm_block(query, o))
           IN  IF b2.t # "fall" THEN b2 ELSE Return(None)

(***************************************************************************)
(* POI acquisition: fetch_pois (Google Places) and its fallback            *)
(* fetch_pois_overpass (OpenStreetMap).                                    *)
(*                                                                         *)
(* An Overpass element is [type, id, tags, lat, lon, center_lat,           *)
(* center_lon]; the coordinates are sets, {} for an absent one and {v}     *)
(* for the value v.  A point carries lat and lon, an area the lat and lon  *)
(* of its center.  A Google place is [place_id, name, lat, lon, types].    *)
(***************************************************************************)
PoiCap == 40

Element(type, id, tags, lat, lon) ==
  [type |-> type, id |-> id, tags |-> tags, lat |-> lat, lon |-> lon,
   center_lat |-> {}, center_lon |-> {}]

\* An element "out center" gave a center: {"type": ..., "center": {...}}.
Area(type, id, tags, center_lat, center_lon) ==
  [type |-> type, id |-> id, tags |-> tags, lat |-> {}, lon |-> {},
   center_lat |-> center_lat, center_lon |-> center_lon]

Place(place_id, name, lat, lon, types) ==
  [place_id |-> place_id, name |-> name, lat |-> lat, lon |-> lon,
   types |-> types]

\* Python truth value of an optional number: None and 0 are false.
truthy(opt) == opt # {} /\ opt # {0}

\* a or b, for strings
str_or(a, b) == IF a # "" THEN a ELSE b

\* a or b, for optional numbers
num_or(a, b) == IF truthy(a) THEN a ELSE b

\* Code points order the characters of the identifiers.
CharOrder == " ,/0123456789ABCDEFGHIJKLMNOPQRSTUVWXYZabcdefghijklmnopqrstuvwxyz|"

RECURSIVE str_lt(_, _)
str_lt(a, b) ==
  IF b = "" THEN FALSE
  ELSE IF a = "" THEN TRUE
  ELSE IF Head(a) = Head(b) THEN str_lt(Tail(a), Tail(b))
  ELSE IndexIn(CharOrder, Head(a)) < IndexIn(CharOrder, Head(b))

\* key=lambda p: (0 if p["name"] else 1, p["id"])
\* A key without the name: (p["id"],).
sort_key_by_id(p, q) == str_lt(p.id, q.id)

sort_key_lt(p, q) ==
  LET kp == IF p.name # "" THEN 0 ELSE 1
      kq == IF q.name # "" THEN 0 ELSE 1
  IN  kp < kq \/ (kp = kq /\ str_lt(p.id, q.id))

\* list.sort(key=...): a stable sort.  The place of an element is one more
\* than the number of elements of a smaller key and of earlier elements of
\* an equal key.
sort_pois(pois) ==
  LET n == Len(pois)
      before(j, i) ==
        \/ sort_key_lt(pois[j], pois[i])
        \/ (~sort_key_lt(pois[i], pois[j]) /\ j < i)
      place(i) == Cardinality({ j \in 1..n : before(j, i) }) + 1
  IN  the({ [r \in 1..n |-> pois[CHOOSE i \in 1..n : places[i] = r]] :
            places \in {[i \in 1..n |-> place(i)]} })

first_n(list, n) == SubSeq(list, 1, Min2(n, Len(list)))

\* The loop over data: the elements that have a latitude and a longitude,
\* as POIs.
overpass_pois(data) ==
  LET lat_e(e) == num_or(e.lat, e.center_lat)
      lon_e(e) == num_or(e.lon, e.center_lon)
      located(e) == truthy(lat_e(e)) /\ truthy(lon_e(e))
      poi(e) == OsmPoi(e.type \o "/" \o e.id,
                       str_or(e.tags.name, str_or(e.tags.ref, "")),
                       the(lat_e(e)), the(lon_e(e)), e.tags)
  IN  the({ [i \in 1..Len(kept) |-> poi(kept[i])] :
            kept \in {SelectSeq(data, located)} })

\* A fetch that returns all of pois.
fetch_pois_overpass_block_uncapped(resp) ==
  IF request_raises(resp) THEN Raise
  ELSE Return(sort_pois(overpass_pois(IF resp.kind = "ok" THEN resp.elements
                                      ELSE <<>>)))

\* The answer of Overpass: [kind |-> "ok", elements |-> ...] or a failure;
\* an empty result is an answer without elements.
fetch_pois_overpass_block(resp) ==
  IF request_raises(resp) THEN Raise
  ELSE LET data == IF resp.kind = "ok" THEN resp.elements ELSE <<>>
       IN  the({ Return(first_n(sort_pois(pois), PoiCap)) :
                 pois \in {overpass_pois(data)} })

fetch_pois_overpass(resp) ==
  the({ IF b.t # "fall" THEN b ELSE Return(<<>>) :
        b \in {except_Exception(fetch_pois_overpass_block(resp))} })

google_pois(results) ==
  [i \in 1..Len(results) |->
     GooglePoi(results[i].place_id, results[i].name, results[i].lat,
               results[i].lon, GoogleTags(results[i].types))]

\* The answer of Google Places: [kind |-> "ok", results |-> ...] or a
\* failure; an empty result carries the status ZERO_RESULTS.
fetch_pois_google_block(secrets, resp) ==
  IF GOOGLE_MAPS_KEY \notin secrets THEN Fall
  ELSE IF request_raises(resp) THEN Raise
  ELSE IF resp.kind = "ok"       \* data.get("status") == "OK"
       THEN Return(google_pois(first_n(resp.results, PoiCap)))
       ELSE Fall

\* overpass is the value of the call fetch_pois_overpass(lat, lon, radius_m).
fetch_pois(secrets, resp, overpass) ==
  the({ IF b.t # "fall" THEN b ELSE overpass :
        b \in {except_Exception(fetch_pois_google_block(secrets, resp))} })

(***************************************************************************)
(* Conditions lookup: get_weather (OpenWeather) and its fallback           *)
(* get_weather_open_meteo.                                                 *)
(***************************************************************************)
\* The answer of Open-Meteo: [kind |-> "ok", temperature, windspeed] or a
\* failure.  The value of get_weather_open_meteo is the parsed JSON, kept
\* as its optional current_weather member: {} when the JSON has none and
\* after an exception.
get_weather_open_meteo_block(resp) ==
  IF request_raises(resp) THEN Raise
  ELSE Return(IF resp.kind = "ok"
              THEN {[temperature |-> resp.temperature,
                     windspeed |-> resp.windspeed]}
              ELSE {})

get_weather_open_meteo(resp) ==
  LET b == except_Exception(get_weather_open_meteo_block(resp))
  IN  IF b.t # "fall" THEN b ELSE Return({})

\* The answer of OpenWeather: [kind |-> "ok", temp, description, humidity,
\* speed] or a failure; an empty JSON object is formatted with the
\* defaults of the .get calls.
get_weather_openweather_block(secrets, resp) ==
  IF OPENWEATHER_KEY \notin secrets THEN Fall
  ELSE IF request_raises(resp) THEN Raise
  ELSE LET data == IF resp.kind = "ok" THEN resp
                   ELSE [temp |-> "?", description |-> "", humidity |-> "?",
                         speed |-> "?"]
       IN  Return(data.temp \o "C | " \o data.description \o " | "
                  \o data.humidity \o "% humidity | wind " \o data.speed \o "m/s")

\* meteo is the value of the call get_weather_open_meteo(lat, lon).
get_weather(secrets, resp, meteo) ==
  LET b == except_Exception(get_weather_openweather_block(secrets, resp))
  IN  IF b.t # "fall" THEN b
      ELSE IF meteo.t = "raise" THEN meteo
      ELSE IF meteo.v # {}      \* if fallback.get("current_weather"):
           THEN LET w == the(meteo.v)
                IN  Return(w.temperature \o "C | wind " \o w.windspeed \o "km/h")
           ELSE Return("")

(***************************************************************************)
(* The literal tables of PhotoTaskPlanner.__init__, in the order of the     *)
(* source (a dict is iterated in insertion order).  Characters outside      *)
(* ASCII are transliterated: pictographs are dropped together with the      *)
(* blank after them, arrows are "->", dashes "-", bullets "*", ticks "+".   *)
(***************************************************************************)
city_guides ==
  <<
  [key |-> "melbourne cbd",
   genres |-> <<"street",
               "cityscape",
               "architecture">>,
   suggested_spots |->
     <<"Flinders Street Station for architecture + people flow",
       "Hosier Lane for graffiti/texture abstracts",
       "Trams on Bourke Street for motion blur",
       "Southbank for skyline + river reflections",
       "Federation Square for geometric patterns">>,
   specific_steps |->
     <<"Shoot motion blur of tram passing at 1/15s shutter",
       "Capture layered crossing at Flinders with pedestrians + skyline",
       "Frame graffiti walls in Hosier Lane with passerby for scale",
       "Look for golden hour reflections on glass facades along Collins St",
       "Photograph commuter flow at Southern Cross Station">>],
  [key |-> "geelong",
   genres |-> <<"cityscape",
               "urban nature",
               "abstract">>,
   suggested_spots |->
     <<"Geelong Waterfront bollards",
       "Eastern Beach boardwalk",
       "Cunningham Pier for symmetry",
       "Botanic Gardens for textures/close-ups",
       "Steampacket Gardens for waterfront views">>,
   specific_steps |->
     <<"Shoot bollard figures as foreground with bay in background",
       "Capture long pier symmetry with leading lines",
       "Use reflections from water surface for abstract frames",
       "Focus on details: textures of old boats, rust, wood patterns",
       "Photograph sunset silhouettes along the foreshore">>],
  [key |-> "cairns",
   genres |-> <<"nature",
               "urban nature",
               "street",
               "beach">>,
   suggested_spots |->
     <<"Esplanade Lagoon for reflections",
       "Cairns Boardwalk for waterfront shots",
       "Night Markets for street/documentary",
       "Muddy's Playground for candid family moments",
       "Marina for boat details and golden hour">>,
   specific_steps |->
     <<"Capture reflections in the lagoon at blue hour",
       "Photograph palm tree silhouettes against sunset",
       "Shoot candid moments at the night markets with available light",
       "Use telephoto to compress boats against mountains",
       "Look for tropical textures and vibrant colors">>],
  [key |-> "sydney",
   genres |-> <<"cityscape",
               "architecture",
               "street",
               "waterfront">>,
   suggested_spots |->
     <<"Sydney Opera House for iconic architecture",
       "Circular Quay for street + waterfront",
       "The Rocks for historic textures",
       "Harbour Bridge for leading lines",
       "Darling Harbour for reflections">>,
   specific_steps |->
     <<"Shoot Opera House from Mrs Macquarie's Chair at golden hour",
       "Capture commuter flow at Circular Quay with ferries in background",
       "Photograph cobblestone textures and historic facades in The Rocks",
       "Use Harbour Bridge as leading line with pedestrians for scale",
       "Look for reflections in Darling Harbour at blue hour">>],
  [key |-> "brisbane",
   genres |-> <<"cityscape",
               "urban nature",
               "street">>,
   suggested_spots |->
     <<"South Bank Parklands",
       "Story Bridge for cityscape",
       "Queen Street Mall for street photography",
       "Brisbane River for reflections",
       "Kangaroo Point Cliffs for skyline views">>,
   specific_steps |->
     <<"Capture Story Bridge lit up at blue hour",
       "Photograph street performers and crowds at South Bank",
       "Use river reflections for abstract cityscape compositions",
       "Shoot skyline from Kangaroo Point with telephoto compression",
       "Look for leading lines along the riverwalk">>],
  [key |-> "adelaide",
   genres |-> <<"cityscape",
               "beach",
               "street",
               "architecture">>,
   suggested_spots |->
     <<"Rundle Mall for shopping street flow",
       "Adelaide Central Market for vibrant colors",
       "Glenelg Beach jetty for sunset silhouettes",
       "Adelaide Oval + River Torrens for architecture/water reflections">>,
   specific_steps |->
     <<"Photograph street performers or shoppers in Rundle Mall",
       "Capture stall vendors mid-interaction inside Central Market",
       "Silhouette subjects walking on Glenelg jetty against sunset",
       "Shoot Adelaide Oval from the footbridge with skyline background">>],
  [key |-> "perth",
   genres |-> <<"beach",
               "cityscape",
               "nature">>,
   suggested_spots |->
     <<"Cottesloe Beach for golden hour surfers",
       "Elizabeth Quay for modern architecture",
       "Kings Park for skyline views with nature foreground">>,
   specific_steps |->
     <<"Capture surfers or beachgoers at Cottesloe just before sunset",
       "Shoot abstracts of public art at Elizabeth Quay",
       "Frame Perth skyline against foreground trees from Kings Park">>],
  [key |-> "hobart",
   genres |-> <<"harbour",
               "mountains",
               "architecture">>,
   suggested_spots |->
     <<"Salamanca Market for candid vendor/visitor shots",
       "Mount Wellington for sweeping landscapes",
       "Constitution Dock for boats and reflections">>,
   specific_steps |->
     <<"Capture stall textures + candid haggling at Salamanca Market",
       "Shoot panoramic landscapes from Mt Wellington at golden hour",
       "Photograph dockside boats + water reflections">>],
  [key |-> "darwin",
   genres |-> <<"wildlife",
               "beach",
               "sunset">>,
   suggested_spots |->
     <<"Mindil Beach sunset market",
       "Darwin Botanic Gardens",
       "Crocosaurus Cove for wildlife">>,
   specific_steps |->
     <<"Photograph silhouetted crowds at Mindil Beach markets at sunset",
       "Focus on tropical textures in Botanic Gardens (palms, flowers)",
       "Shoot dramatic crocodile detail shots at Crocosaurus Cove">>],
  [key |-> "gold coast",
   genres |-> <<"surf",
               "beach",
               "cityscape">>,
   suggested_spots |->
     <<"Surfers Paradise beach",
       "SkyPoint Observation Deck",
       "Broadbeach walkways">>,
   specific_steps |->
     <<"Shoot surfers with tele lens, compressing waves",
       "Capture aerial skyline views from SkyPoint",
       "Use Broadbeach path lamps as leading lines at dusk">>],
  [key |-> "taronga zoo",
   genres |-> <<"wildlife",
               "portrait",
               "urban nature">>,
   suggested_spots |->
     <<"Elephant trail",
       "Giraffe outlook (with Sydney skyline in background)",
       "Seal show area">>,
   specific_steps |->
     <<"Photograph giraffes with Opera House/Harbour Bridge background",
       "Capture sequences of seals in mid-air during show",
       "Portraits of elephants with tele lens for texture/mood">>],
  [key |-> "taronga western plains",
   genres |-> <<"wildlife",
               "landscape">>,
   suggested_spots |->
     <<"Savannah plains exhibit",
       "Rhino enclosure",
       "Lion pride lands">>,
   specific_steps |->
     <<"Emphasize scale by shooting wide landscapes with giraffes",
       "Isolate rhino textures with telephoto compression",
       "Capture lion family interactions with layered framing">>],
  [key |-> "bondi beach",
   genres |-> <<"beach",
               "surf",
               "street">>,
   suggested_spots |->
     <<"Bondi to Bronte coastal walk",
       "Bondi Icebergs pool",
       "Beach volleyball courts">>,
   specific_steps |->
     <<"Shoot surfers with telephoto compression against waves",
       "Capture Icebergs pool with ocean backdrop",
       "Silhouettes of beachgoers at sunset">>],
  [key |-> "great ocean road",
   genres |-> <<"landscape",
               "coastal",
               "nature">>,
   suggested_spots |->
     <<"Twelve Apostles at golden hour",
       "Loch Ard Gorge",
       "Gibson Steps beach access">>,
   specific_steps |->
     <<"Shoot Twelve Apostles with foreground rocks for depth",
       "Capture wave motion with varying shutter speeds",
       "Use leading lines from cliff edges into ocean">>]
  >>

generic_guides ==
  <<
  [key |-> "cbd",
   steps |->
     <<"Look for architectural symmetry in modern buildings",
       "Capture commuter flow at peak times",
       "Shoot reflections in glass facades",
       "Find leading lines in streets and crosswalks">>],
  [key |-> "downtown",
   steps |->
     <<"Photograph street-level activity and crowds",
       "Look for reflections in storefronts",
       "Capture urban geometry and patterns">>],
  [key |-> "city center",
   steps |->
     <<"Scout for architectural details",
       "Capture pedestrian flow and gestures",
       "Look for contrast between old and new buildings">>],
  [key |-> "park",
   steps |->
     <<"Frame joggers or walkers under tree branches",
       "Photograph patterns in leaves or textures in bark",
       "Try telephoto compression of subjects against foliage",
       "Look for natural framing with branches">>],
  [key |-> "garden",
   steps |->
     <<"Focus on macro details of flowers and textures",
       "Capture pathways as leading lines",
       "Look for color contrasts in plantings">>],
  [key |-> "beach",
   steps |->
     <<"Shoot silhouettes of walkers against sunset",
       "Look for reflections in wet sand",
       "Use leading lines from shore into horizon",
       "Capture wave motion with varying shutter speeds">>],
  [key |-> "coast",
   steps |->
     <<"Photograph rock formations with wave action",
       "Use long exposure for smooth water effects",
       "Capture golden hour light on cliffs">>],
  [key |-> "market",
   steps |->
     <<"Capture gestures at stalls (buying/selling moments)",
       "Look for color pops in produce and textiles",
       "Shoot low-angle through hanging goods",
       "Photograph vendor portraits with environmental context">>],
  [key |-> "bazaar",
   steps |->
     <<"Focus on textures and patterns in goods",
       "Capture candid vendor interactions",
       "Look for dramatic lighting through market structures">>],
  [key |-> "station",
   steps |->
     <<"Photograph waiting passengers isolated against architecture",
       "Use 1/15s shutter for motion blur of passing trains",
       "Capture symmetry in platforms, escalators or signage",
       "Look for light beams and geometric patterns">>],
  [key |-> "subway",
   steps |->
     <<"Capture commuter flow and gestures",
       "Look for leading lines in tunnels and platforms",
       "Shoot motion blur of trains arriving/departing">>],
  [key |-> "metro",
   steps |->
     <<"Photograph architectural patterns and symmetry",
       "Capture candid moments of waiting passengers",
       "Use available light creatively">>],
  [key |-> "airport",
   steps |->
     <<"Capture departure/arrival board reflections",
       "Photograph silhouettes against large windows",
       "Look for geometric patterns in architecture">>],
  [key |-> "terminal",
   steps |->
     <<"Focus on human moments of greeting/farewell",
       "Capture architectural scale and symmetry",
       "Look for interesting light through large windows">>],
  [key |-> "zoo",
   steps |->
     <<"Animal close-ups with telephoto",
       "Capture natural behaviors and interactions",
       "Portraits framed by habitat elements">>],
  [key |-> "wildlife",
   steps |->
     <<"Use telephoto for intimate portraits",
       "Capture action and behavior sequences",
       "Look for eye contact and expressions">>],
  [key |-> "safari",
   steps |->
     <<"Emphasize scale with wide landscapes",
       "Capture animals in their natural habitat context",
       "Use golden hour for warm, dramatic light">>],
  [key |-> "museum",
   steps |->
     <<"Symmetry in architecture",
       "Details of exhibits (no flash)",
       "Environmental capture of visitors interacting with art">>],
  [key |-> "gallery",
   steps |->
     <<"Photograph visitors engaging with artwork",
       "Capture architectural details and lighting",
       "Look for reflections and shadows">>],
  [key |-> "mountain",
   steps |->
     <<"Layered landscape depth with foreground interest",
       "Golden hour side light for texture",
       "Use leading lines from trails or ridges">>],
  [key |-> "hill",
   steps |->
     <<"Capture sweeping vistas with foreground elements",
       "Look for patterns in terrain",
       "Use atmospheric perspective for depth">>],
  [key |-> "lookout",
   steps |->
     <<"Shoot panoramic landscapes",
       "Include human scale for perspective",
       "Capture changing light conditions">>],
  [key |-> "waterfront",
   steps |->
     <<"Capture reflections in calm water",
       "Shoot silhouettes at golden/blue hour",
       "Use piers/jetties as leading lines",
       "Photograph boats with telephoto compression">>],
  [key |-> "harbour",
   steps |->
     <<"Capture boat details and reflections",
       "Shoot long exposures for smooth water",
       "Look for leading lines from docks and piers">>],
  [key |-> "marina",
   steps |->
     <<"Photograph masts as repeating patterns",
       "Capture reflections in calm water",
       "Use boats as foreground interest for cityscapes">>],
  [key |-> "forest",
   steps |->
     <<"Look for light beams through trees",
       "Capture textures in bark and foliage",
       "Use trees as natural framing elements">>],
  [key |-> "trail",
   steps |->
     <<"Use path as leading line into scene",
       "Capture hikers for scale",
       "Look for interesting light through canopy">>],
  [key |-> "cafe",
   steps |->
     <<"Window light portraits of patrons",
       "Detail shots of coffee and food",
       "Capture ambient atmosphere and interactions">>],
  [key |-> "restaurant",
   steps |->
     <<"Environmental portraits with context",
       "Detail shots emphasizing textures and colors",
       "Capture candid dining moments">>],
  [key |-> "mall",
   steps |->
     <<"Architectural patterns and symmetry",
       "Candid shoppers and crowd flow",
       "Reflections in storefronts">>],
  [key |-> "shopping",
   steps |->
     <<"Capture retail displays creatively",
       "Photograph crowd interactions",
       "Look for color and pattern contrasts">>]
  >>

lens_rationale_table ==
  <<
  [key |-> "35mm F2",
   text |-> "Versatile for street and environmental portraits; natural field of view; fast aperture for low light"],
  [key |-> "35mm",
   text |-> "Versatile for street and environmental portraits; natural field of view"],
  [key |-> "70-300mm",
   text |-> "Compression for cityscapes and distant subjects; isolates details; great for candid telephoto street and wildlife"],
  [key |-> "fixed ~40mm",
   text |-> "Compact and discreet for street; forces you to move; classic reportage focal length"],
  [key |-> "28mm",
   text |-> "Wide enough for context; great for environmental storytelling; classic street photography focal length"],
  [key |-> "50mm",
   text |-> "Natural perspective for portraits; fast aperture; mimics human eye view; excellent for film photography"]
  >>

composition_prompts ==
  <<
  [key |-> "street",
   prompts |->
     <<"Decisive moment gestures",
       "Reflections in windows/puddles",
       "Strong shadow geometry",
       "Overlapping subject layers (3+ planes)",
       "Leading lines from curbs/crosswalks",
       "Color blocking with clothing/signage",
       "Frame within frame (doorways, windows)">>],
  [key |-> "portrait",
   prompts |->
     <<"Eye-level connection with subject",
       "Environmental context storytelling",
       "Negative space for breathing room",
       "Catchlights in eyes for life",
       "Subject-background separation (shallow DOF)",
       "Rule of thirds eye placement",
       "Natural framing with foreground elements">>],
  [key |-> "cityscape",
   prompts |->
     <<"Skyline compression with telephoto",
       "Symmetry in buildings/bridges",
       "Leading roads into vanishing point",
       "Blue hour balance (ambient + artificial light)",
       "Reflections after rain on streets",
       "Human scale reference for size",
       "Geometric patterns in architecture">>],
  [key |-> "night street",
   prompts |->
     <<"Neon signs as key light source",
       "Motion blur at 1/10-1/30s for cars",
       "Headlight/taillight streaks",
       "Puddle reflections doubling lights",
       "Lit signage as colorful background",
       "High-ISO grain for atmosphere",
       "Silhouettes against lit windows">>],
  [key |-> "architecture",
   prompts |->
     <<"Leading lines to vanishing point",
       "Symmetry and patterns",
       "Detail isolation (textures, materials)",
       "Wide context establishing shots",
       "Low angle for dramatic perspective",
       "Human scale reference",
       "Light and shadow interplay">>],
  [key |-> "nature",
   prompts |->
     <<"Foreground interest for depth",
       "Golden hour side/back lighting",
       "Telephoto compression of layers",
       "Macro details of textures",
       "Rule of thirds horizon placement",
       "Natural framing with branches",
       "Leading lines with paths/rivers">>],
  [key |-> "wildlife",
   prompts |->
     <<"Frame habitat context",
       "Tight telephoto detail on eyes",
       "Silhouettes at sunset",
       "Behavior/motion capture",
       "Animal eye contact for connection",
       "Environmental storytelling",
       "Action sequences with burst mode">>],
  [key |-> "landscape",
   prompts |->
     <<"Foreground, midground, background layers",
       "Golden hour warm light",
       "Leading lines into scene",
       "Rule of thirds horizon",
       "Atmospheric perspective for depth",
       "Dramatic sky as key element",
       "Reflections in water">>],
  [key |-> "beach",
   prompts |->
     <<"Silhouettes against sunset",
       "Reflections in wet sand",
       "Leading lines from shore",
       "Wave motion with shutter speed variation",
       "Foreground shells/rocks for depth",
       "Golden hour warm tones",
       "Minimalist compositions">>],
  [key |-> "documentary",
   prompts |->
     <<"Candid unposed moments",
       "Environmental context",
       "Storytelling sequences",
       "Authentic expressions",
       "Details that reveal character",
       "Wide and tight shot variety",
       "Respectful distance and framing">>]
  >>


(***************************************************************************)
(* Randomness.  Every random choice of the program (random.sample,         *)
(* random.shuffle, random.choice, the iteration order of a set of strings) *)
(* is drawn from a seed; the seeds of the model give some of the possible  *)
(* outcomes.                                                               *)
(***************************************************************************)
Seeds == 0..MaxSeed

rotate(list, k) ==
  IF list = <<>> THEN <<>>
  ELSE LET n == Len(list)
       IN  [i \in 1..n |-> list[((i - 1 + k) % n) + 1]]

\* random.shuffle / random.sample(list, len(list)): a permutation.
permute(list, seed) == rotate(list, seed)

\* random.sample(list, k): k elements, no element drawn twice.
sample(list, k, seed) == first_n(rotate(list, seed), k)

RECURSIVE dedupe(_)
dedupe(list) ==
  IF list = <<>> THEN <<>>
  ELSE LET init == dedupe(SubSeq(list, 1, Len(list) - 1))
           x    == list[Len(list)]
       IN  IF x \in Range(init) THEN init ELSE Append(init, x)

\* A list that keeps its duplicates.
list_of_set_keeping(list, seed) == rotate(list, seed)

\* list(set(list)): the different elements, in an order of the hash table.
list_of_set(list, seed) == rotate(dedupe(list), seed)

(***************************************************************************)
(* PhotoTaskPlanner: static location guide and POI classification.         *)
(***************************************************************************)
\* Index of the first entry of table whose key is contained in text, 0
\* when there is none.
RECURSIVE first_key_in(_, _, _)
first_key_in(table, text, i) ==
  IF i > Len(table) THEN 0
  ELSE IF contains(text, table[i].key) THEN i
  ELSE first_key_in(table, text, i + 1)

\* A lookup that tries the generic keywords before the curated cities.
analyze_location_keyword_first(location) ==
  LET loc_lower == lower(location)
      city      == first_key_in(city_guides, loc_lower, 1)
      keyword   == first_key_in(generic_guides, loc_lower, 1)
  IN  IF keyword # 0
      THEN [genres |-> <<generic_guides[keyword].key>>,
            suggested_spots |-> <<>>,
            specific_steps |-> generic_guides[keyword].steps]
      ELSE IF city # 0
      THEN [genres |-> city_guides[city].genres,
            suggested_spots |-> city_guides[city].suggested_spots,
            specific_steps |-> city_guides[city].specific_steps]
      ELSE [genres |-> <<"documentary", "environmental">>,
            suggested_spots |-> <<>>,
            specific_steps |-> <<>>]

analyze_location(location) ==
  LET loc_lower == lower(location)
      city      == first_key_in(city_guides, loc_lower, 1)
      keyword   == first_key_in(generic_guides, loc_lower, 1)
  IN  IF city # 0
      THEN [genres |-> city_guides[city].genres,
            suggested_spots |-> city_guides[city].suggested_spots,
            specific_steps |-> city_guides[city].specific_steps]
      ELSE IF keyword # 0
      THEN [genres |-> <<generic_guides[keyword].key>>,
            suggested_spots |-> <<>>,
            specific_steps |-> generic_guides[keyword].steps]
      ELSE [genres |-> <<"documentary", "environmental">>,
            suggested_spots |-> <<>>,
            specific_steps |-> <<>>]

any_in(words, text) == \E i \in 1..Len(words) : contains(text, words[i])

\* A classification that hands back the provider's own hint.
classify_poi_category_raw(tags) ==
  IF tags.type = "google_place"
  THEN IF tags.types = <<>> THEN "general" ELSE lower(tags.types[1])
  ELSE str_or(lower(tags.tourism), "general")

classify_poi_category(tags) ==
  IF tags.type = "google_place"
  THEN LET types_str == lower(join(" ", tags.types))
       IN  IF any_in(<<"park", "garden">>, types_str) THEN "park"
           ELSE IF any_in(<<"museum", "art_gallery">>, types_str) THEN "museum_art"
           ELSE IF any_in(<<"shopping_mall", "department_store">>, types_str) THEN "mall"
           ELSE IF any_in(<<"restaurant", "cafe", "bar">>, types_str) THEN "hospitality"
           ELSE IF any_in(<<"tourist_attraction", "point_of_interest">>, types_str) THEN "viewpoint"
           ELSE IF any_in(<<"beach", "natural_feature">>, types_str) THEN "coast"
           ELSE IF any_in(<<"bridge">>, types_str) THEN "bridge_pier"
           ELSE "general"
  ELSE LET t == lower(tags.tourism \o " " \o tags.amenity \o " " \o tags.leisure
                      \o " " \o tags.natural \o " " \o tags.man_made \o " "
                      \o tags.shop)
       IN  IF contains(t, "viewpoint") THEN "viewpoint"
           ELSE IF contains(t, "museum") \/ contains(t, "artwork") THEN "museum_art"
           ELSE IF contains(t, "market") \/ contains(t, "marketplace") THEN "market"
           ELSE IF contains(t, "park") \/ contains(t, "garden") THEN "park"
           ELSE IF contains(t, "beach") \/ contains(t, "coast") \/ contains(t, "marina") THEN "coast"
           ELSE IF contains(t, "bridge") \/ contains(t, "pier") THEN "bridge_pier"
           ELSE IF contains(t, "mall") \/ contains(t, "department_store") THEN "mall"
           ELSE IF contains(t, "cafe") \/ contains(t, "restaurant") \/ contains(t, "bar") THEN "hospitality"
           ELSE "general"

Categories ==
  {"viewpoint", "museum_art", "market", "park", "coast", "bridge_pier",
   "mall", "hospitality", "general"}

\* The bundle of a category: its steps and its prompt fragments.
poi_template_bundle(poi_name, category) ==
  CASE category = "viewpoint" ->
        [steps |->
           <<"At " \o poi_name \o ", shoot 3 layered frames with clear foreground interest",
             "Use telephoto to compress the skyline/landscape from " \o poi_name,
             "Wait for a person to enter frame at " \o poi_name \o " to add human scale",
             "If windy at " \o poi_name \o ", stabilize and try 1/10-1/30s motion blur of moving elements">>,
         prompts |->
           <<"Layered depth",
             "Leading lines to horizon",
             "Human scale against vast scene",
             "Golden/blue hour glow">>]
    [] category = "museum_art" ->
        [steps |->
           <<"Inside " \o poi_name \o ", focus on symmetry and clean lines in exhibits",
             "Capture visitors interacting with exhibits at " \o poi_name \o " (no flash)",
             "Isolate textures and materials with tight framing at " \o poi_name,
             "Use reflections in glass cases at " \o poi_name \o " for layered abstracts">>,
         prompts |->
           <<"Symmetry",
             "Negative space",
             "Reflections",
             "Texture isolation">>]
    [] category = "market" ->
        [steps |->
           <<"At " \o poi_name \o ", capture buyer/seller gestures and exchanges",
             "Shoot color pops of produce or textiles at " \o poi_name,
             "Low angle through hanging items at " \o poi_name \o " for depth",
             "Pair wide environmental shots with tight details at " \o poi_name>>,
         prompts |->
           <<"Gesture/decisive moment",
             "Color blocking",
             "Frame within frame",
             "Leading lines through aisles">>]
    [] category = "park" ->
        [steps |->
           <<"At " \o poi_name \o ", use tree branches for natural framing",
             "Macro details of leaves, bark, and textures at " \o poi_name,
             "Silhouettes of runners/walkers at " \o poi_name \o " during golden hour",
             "Telephoto compression of foliage layers at " \o poi_name>>,
         prompts |->
           <<"Natural frames",
             "Patterns in nature",
             "Silhouettes",
             "Foreground interest">>]
    [] category = "coast" ->
        [steps |->
           <<"At " \o poi_name \o ", experiment with shutter speeds for wave motion",
             "Capture reflections in wet sand or puddles at " \o poi_name,
             "Silhouettes against sunset/sunrise at " \o poi_name,
             "Use pier/marina structures at " \o poi_name \o " as strong leading lines">>,
         prompts |->
           <<"Motion blur",
             "Reflections",
             "Minimalism",
             "Leading lines">>]
    [] category = "bridge_pier" ->
        [steps |->
           <<"Shoot centerline symmetry on " \o poi_name,
             "Photograph " \o poi_name \o " from below/side for graphic geometry",
             "Include passing subjects on " \o poi_name \o " for scale/motion",
             "Long exposure at " \o poi_name \o " to smooth water if applicable">>,
         prompts |->
           <<"Symmetry",
             "Geometric patterns",
             "Scale with human element",
             "Long exposure water">>]
    [] category = "mall" ->
        [steps |->
           <<"At " \o poi_name \o ", capture architectural patterns and escalator geometry",
             "Reflections in storefront glass at " \o poi_name,
             "Candid shopper interactions at " \o poi_name,
             "Top-down or low-angle abstracts at " \o poi_name>>,
         prompts |->
           <<"Repetition",
             "Reflections",
             "Leading lines",
             "Frame within frame">>]
    [] category = "hospitality" ->
        [steps |->
           <<"At " \o poi_name \o ", shoot window light portraits (ask permission)",
             "Detail shots of cups/plates with texture at " \o poi_name,
             "Ambient scene with layered foreground at " \o poi_name,
             "Reflections through window glass at " \o poi_name>>,
         prompts |->
           <<"Window light",
             "Texture details",
             "Layering",
             "Reflections">>]
    [] category = "general" ->
        [steps |->
           <<"At " \o poi_name \o ", scout and find the most distinctive visual elements",
             "Shoot 1 wide, 2 medium, 2 tight frames at " \o poi_name \o " for a mini-story",
             "Look for symmetry, reflections, or bold shadows at " \o poi_name,
             "Include at least 1 human element at " \o poi_name \o " for scale/story">>,
         prompts |->
           <<"Wide-medium-tight sequencing",
             "Reflections",
             "Symmetry",
             "Human scale">>]

poi_task_templates(poi_name, category, time_of_day, weather_summary, seed) ==
  LET common  == poi_template_bundle(poi_name,
                   IF category \in Categories THEN category ELSE "general")
      rain    == contains(lower(weather_summary), "rain")
                 \/ contains(lower(weather_summary), "precipitation")
      golden  == time_of_day \in {"golden hour", "blue hour"}
      steps   == IF rain
                 THEN <<"At " \o poi_name \o ", use shelter and focus on reflections and umbrellas">>
                      \o common.steps
                 ELSE common.steps
      prompts1 == IF rain
                  THEN list_of_set(common.prompts \o <<"Rain reflections", "Through-glass layering">>, seed)
                  ELSE common.prompts
      prompts2 == IF golden
                  THEN list_of_set(prompts1 \o <<"Golden/blue hour color contrast">>, seed)
                  ELSE prompts1
  IN  [steps |-> steps, prompts |-> prompts2]

(***************************************************************************)
(* PhotoTaskPlanner: generic content selection.                            *)
(***************************************************************************)
\* Presets whose night entry is appended whenever an entry was appended
\* before it.
generate_exposures_night_after_golden(is_digital, film_iso, time_of_day) ==
  IF ~is_digital
  THEN <<"Sunny 16: f/16, 1/" \o film_iso \o "s, ISO " \o film_iso,
         "Overcast: f/8, 1/250s, ISO " \o film_iso,
         "Shade: f/5.6, 1/125s, ISO " \o film_iso,
         "Golden hour backlit: f/4, 1/500s, ISO " \o film_iso \o " (meter for highlights)",
         "Night: f/2.8, 1/30s, ISO " \o film_iso \o " (consider push +1 stop)">>
  ELSE <<"Sunny: f/8, 1/500s, ISO 200",
         "Overcast: f/4, 1/250s, ISO 800",
         "Shade: f/2.8, 1/125s, ISO 1600">>
       \o (IF time_of_day \in {"golden hour", "blue hour", "night"}
           THEN <<"Golden/Blue hour: f/4, 1/250s, ISO Auto (cap 3200), -0.3 EV comp",
                  "Night: f/2, 1/60s, ISO 3200-6400, spot meter highlights">>
           ELSE <<>>)

generate_exposures(is_digital, film_iso, time_of_day) ==
  IF ~is_digital
  THEN <<"Sunny 16: f/16, 1/" \o film_iso \o "s, ISO " \o film_iso,
         "Overcast: f/8, 1/250s, ISO " \o film_iso,
         "Shade: f/5.6, 1/125s, ISO " \o film_iso,
         "Golden hour backlit: f/4, 1/500s, ISO " \o film_iso \o " (meter for highlights)",
         "Night: f/2.8, 1/30s, ISO " \o film_iso \o " (consider push +1 stop)">>
  ELSE LET base == <<"Sunny: f/8, 1/500s, ISO 200",
                     "Overcast: f/4, 1/250s, ISO 800",
                     "Shade: f/2.8, 1/125s, ISO 1600">>
           base1 == IF time_of_day \in {"golden hour", "blue hour"}
                    THEN Append(base, "Golden/Blue hour: f/4, 1/250s, ISO Auto (cap 3200), -0.3 EV comp")
                    ELSE base
       IN  IF time_of_day = "night"
           THEN Append(base1, "Night: f/2, 1/60s, ISO 3200-6400, spot meter highlights")
           ELSE base1

default_prompts ==
  <<"Rule of thirds placement",
    "Foreground interest for depth",
    "Leading lines to subject",
    "Negative space for breathing room",
    "Frame within frame">>

get_composition_prompts(photo_type, seed) ==
  LET k == first_key_in(composition_prompts, lower(photo_type), 1)
  IN  IF k # 0
      THEN sample(composition_prompts[k].prompts,
                  Min2(5, Len(composition_prompts[k].prompts)), seed)
      ELSE default_prompts

get_safety_note(params) ==
  LET photo_type == lower(params.photo_type)
      location   == lower(params.location)
  IN  IF contains(photo_type, "street") \/ contains(location, "street")
         \/ contains(location, "cbd")
      THEN "Stay aware of traffic; keep camera strap on; be respectful and discreet with subjects"
      ELSE IF contains(photo_type, "portrait")
      THEN "Obtain clear consent before shooting; respect personal boundaries and comfort"
      ELSE IF contains(params.time_of_day, "night") \/ contains(photo_type, "night")
      THEN "Stay in well-lit public areas; be aware of surroundings; secure your gear"
      ELSE IF any_in(<<"museum", "gallery", "mall">>, location)
      THEN "Check venue policies (no flash/tripod often); respect restricted areas and staff directions"
      ELSE "Be respectful of people and property; ask permission when photographing private spaces"

criteria_map(keeper_count) ==
  <<
  [key |-> "street",
   criteria |->
     <<"+ 1 decisive moment with clear gesture/action",
       "+ 1 layered frame with 3+ depth planes",
       "+ 1 reflection or strong shadow composition",
       "+ " \o keeper_count \o " keeper frames total">>],
  [key |-> "portrait",
   criteria |->
     <<"+ Sharp focus on eyes in at least 3 frames",
       "+ 1 frame with clean background separation",
       "+ Natural expression captured (not forced)",
       "+ Catchlights visible in eyes",
       "+ " \o keeper_count \o " keepers with good light">>],
  [key |-> "cityscape",
   criteria |->
     <<"+ 1 wide establishing shot with context",
       "+ 1 detail shot isolating pattern/texture",
       "+ Straight verticals (no keystoning)",
       "+ 1 frame with human scale reference",
       "+ " \o keeper_count \o " keeper frames">>],
  [key |-> "architecture",
   criteria |->
     <<"+ Strong leading lines in at least 2 frames",
       "+ 1 symmetrical composition",
       "+ Detail and context shots both captured",
       "+ " \o keeper_count \o " keepers">>],
  [key |-> "wildlife",
   criteria |->
     <<"+ Sharp focus on animal eyes in 3+ frames",
       "+ 1 behavior/action shot",
       "+ 1 environmental context shot",
       "+ " \o keeper_count \o " keeper frames">>],
  [key |-> "landscape",
   criteria |->
     <<"+ Foreground, midground, background in 2+ frames",
       "+ 1 frame with dramatic sky",
       "+ Sharp focus throughout (use smaller aperture)",
       "+ " \o keeper_count \o " keeper frames">>]
  >>

\* Thresholds that exclude their own value.
keeper_count_below(duration) ==
  IF duration < 60 THEN "10+"
  ELSE IF duration < 120 THEN "15+"
  ELSE IF duration < 240 THEN "25+"
  ELSE "40+"

\* Base keeper count scales with duration.
keeper_count_of(duration) ==
  IF duration <= 60 THEN "10+"
  ELSE IF duration <= 120 THEN "15+"
  ELSE IF duration <= 240 THEN "25+"
  ELSE "40+"

generate_success_criteria(params) ==
  LET photo_type   == lower(params.photo_type)
      duration     == params.duration
      keeper_count == keeper_count_of(duration)
      map          == criteria_map(keeper_count)
      k            == first_key_in(map, photo_type, 1)
  IN  IF k # 0 THEN map[k].criteria
      ELSE <<"+ 3+ strong compositions following prompts",
             "+ Consistent exposure across series",
             "+ At least 1 frame exceeding expectations",
             "+ " \o keeper_count \o " keeper frames">>

generate_contingencies(params) ==
  LET weather == params.weather
      c1 == IF weather = "rain"
            THEN <<"Rain intensifies -> focus on reflections in puddles and umbrella abstracts">>
            ELSE IF weather = "overcast"
            THEN <<"Overcast is ideal for portraits and textures; emphasize soft even light">>
            ELSE IF weather = "fog"
            THEN <<"Fog -> switch to minimalism, silhouettes, layered depth fades">>
            ELSE <<>>
      c2 == IF params.time_of_day \in {"golden hour", "blue hour"}
            THEN Append(c1, "Light fades quickly -> increase ISO or move to artificially lit areas")
            ELSE c1
      c3 == IF contains(lower(params.photo_type), "street")
            THEN Append(c2, "Location quiet -> move to busier intersection, transit hub, or cafe")
            ELSE c2
      c4 == IF c3 = <<>>
            THEN <<"Conditions change -> adapt subject while keeping same gear/approach">>
            ELSE c3
  IN  join(" | ", c4)

\* self.lens_rationale.get(l, "General-purpose lens")
lens_rationale(l) ==
  LET hits == { i \in 1..Len(lens_rationale_table) : lens_rationale_table[i].key = l }
  IN  IF hits = {} THEN "General-purpose lens"
      ELSE lens_rationale_table[CHOOSE i \in hits : TRUE].text

(***************************************************************************)
(* JSON values, as json.load returns them and json.dump writes them.  An   *)
(* object is a function from its keys to JSON values.                      *)
(***************************************************************************)
JStr(text) == [j |-> "str", s |-> text]
JNum(n) == [j |-> "num", n |-> n]
JNull == [j |-> "null"]
JList(items) == [j |-> "list", items |-> items]
JObj(o) == [j |-> "obj", o |-> o]

\* Python truth value: None, "", 0, [] and {} are false.
falsy(v) ==
  \/ v.j = "null"
  \/ v.j = "str" /\ v.s = ""
  \/ v.j = "num" /\ v.n = 0
  \/ v.j = "list" /\ v.items = <<>>
  \/ v.j = "obj" /\ DOMAIN v.o = {}

\* dict.get(key, default); a value that is not a dict has no get.
dict_get(t, key, default) == IF key \in DOMAIN t.o THEN t.o[key] ELSE default

JStrList(list) == JList([i \in 1..Len(list) |-> JStr(list[i])])

\* json.dump of a task dict.
json_of_task(task) ==
  JObj([date |-> JStr(task.date),
        title |-> JStr(task.title),
        summary |-> JStr(task.summary),
        when_where |-> JStr(task.when_where),
        photo_type |-> JStr(task.photo_type),
        camera |-> JStr(task.camera),
        lenses |-> JStrList(task.lenses),
        gear |-> JStr(task.gear),
        lens_rationale |-> JStr(task.lens_rationale),
        exposure_presets |-> JStrList(task.exposure_presets),
        steps |-> JStrList(task.steps),
        composition_prompts |-> JStrList(task.composition_prompts),
        contingencies |-> JStr(task.contingencies),
        success_criteria |-> JStrList(task.success_criteria),
        safety_note |-> JStr(task.safety_note),
        color_mode |-> JStr(task.color_mode),
        weather_summary |-> JStr(task.weather_summary),
        poi_id |-> JStr(task.poi_id),
        poi_name |-> JStr(task.poi_name),
        total_walk_distance_m |-> JNum(task.total_walk_distance_m)])

(***************************************************************************)
(* Storage: the history file task_history.json.  The file is absent, or    *)
(* holds text that parses to a JSON value, or text that does not parse.    *)
(***************************************************************************)
HistoryCap == 7

NoFile == [exists |-> FALSE, parses |-> FALSE, value |-> JNull]

FileOf(value) == [exists |-> TRUE, parses |-> TRUE, value |-> value]

GarbledFile == [exists |-> TRUE, parses |-> FALSE, value |-> JNull]

load_history(f) ==
  IF f.exists
  THEN IF f.parses THEN f.value ELSE JList(<<>>)
  ELSE JList(<<>>)

\* history[:n], the oldest entries.
oldest_n(list, n) ==
  IF Len(list) <= n THEN list ELSE SubSeq(list, 1, n)

\* history[-n:]
last_n(list, n) ==
  IF Len(list) <= n THEN list ELSE SubSeq(list, Len(list) - n + 1, Len(list))

\* What a save_task that loaded history writes, a call that re-reads the
\* file f before it writes.
written_reloading(history, f, task) ==
  JList(last_n(Append(load_history(f).items, json_of_task(task)), HistoryCap))

\* What a save_task that loaded history writes when the file holds f:
\* history.append(task); history[-7:]; json.dump(history, f).
written(history, f, task) ==
  JList(last_n(Append(history.items, json_of_task(task)), HistoryCap))

\* save_task: the file after the call and what the call returned.
save_task(f, task) ==
  LET history == load_history(f)
  IN  IF history.j # "list"         \* history.append raises
      THEN [file |-> f, result |-> Raise]
      ELSE the({ [file |-> FileOf(kept), result |-> Return(kept)] :
                 kept \in {written(history, f, task)} })

(***************************************************************************)
(* PhotoTaskPlanner: repeat suppression and variation.                     *)
(***************************************************************************)
\* The pair compared as it is spelled.
loc_type_of_cased(photo_type, when_where) ==
  <<photo_type, strip(last_segment(when_where, "|"))>>

\* (photo_type.lower(), when_where.split("|")[-1].strip().lower())
loc_type_of(photo_type, when_where) ==
  <<lower(photo_type), lower(strip(last_segment(when_where, "|")))>>

\* The loop over history[-window:]: the list recent, or the exception of
\* an entry that is no dict or whose field is no string.
RECURSIVE recent_of(_, _)
recent_of(entries, recent) ==
  IF entries = <<>> THEN Return(recent)
  ELSE LET t == Head(entries)
       IN  IF t.j # "obj" THEN Raise
           ELSE LET pt == dict_get(t, "photo_type", JNull)
                    ww == dict_get(t, "when_where", JNull)
                IN  IF falsy(pt) \/ falsy(ww)
                    THEN recent_of(Tail(entries), recent)
                    ELSE IF pt.j # "str" \/ ww.j # "str" THEN Raise
                    ELSE recent_of(Tail(entries),
                                   Append(recent, loc_type_of(pt.s, ww.s)))

is_recent_repeat_block(new_task, history, window) ==
  IF history.j # "list" THEN Raise       \* history[-window:], t.get
  ELSE LET loc_type == loc_type_of(new_task.photo_type, new_task.when_where)
           recent   == recent_of(last_n(history.items, window), <<>>)
       IN  IF recent.t = "raise" THEN Raise
           ELSE Return(loc_type \in Range(recent.v))

\* The comparison without its exception handler.
is_recent_repeat_unguarded(new_task, history, window) ==
  IF falsy(history) THEN Return(FALSE)
  ELSE is_recent_repeat_block(new_task, history, window)

is_recent_repeat(new_task, history, window) ==
  IF falsy(history) THEN Return(FALSE)
  ELSE LET b == except_Exception(is_recent_repeat_block(new_task, history, window))
       IN  IF b.t # "fall" THEN b ELSE Return(FALSE)

\* window=7
HistoryWindow == 7

\* A marker that is appended twice.
VariationMarkerTwice == " (Weekly Variation) (Weekly Variation)"

VariationMarker == " (Weekly Variation)"
RotationNote == " | Rotated creative variation for repeat location."

\* A variation that draws one prompt fewer than the task has.
generate_variation_dropping(base_task, seed) ==
  LET shuffled  == IF Len(base_task.steps) > 3
                   THEN permute(base_task.steps, seed)
                   ELSE base_task.steps
      exp       == IF Len(base_task.exposure_presets) > 3
                   THEN first_n(permute(base_task.exposure_presets, seed), 4)
                   ELSE base_task.exposure_presets
      resampled == IF Len(base_task.composition_prompts) > 1
                   THEN sample(base_task.composition_prompts,
                               Len(base_task.composition_prompts) - 1, seed)
                   ELSE base_task.composition_prompts
  IN  [base_task EXCEPT !.steps = shuffled,
                        !.exposure_presets = exp,
                        !.composition_prompts = resampled,
                        !.title = @ \o VariationMarker,
                        !.summary = @ \o RotationNote]

generate_variation(base_task, seed) ==
  LET shuffled  == IF Len(base_task.steps) > 3
                   THEN permute(base_task.steps, seed)
                   ELSE base_task.steps
      exp       == IF Len(base_task.exposure_presets) > 3
                   THEN first_n(permute(base_task.exposure_presets, seed), 4)
                   ELSE base_task.exposure_presets
      resampled == IF Len(base_task.composition_prompts) > 1
                   THEN sample(base_task.composition_prompts,
                               Len(base_task.composition_prompts), seed)
                   ELSE base_task.composition_prompts
  IN  [base_task EXCEPT !.steps = shuffled,
                        !.exposure_presets = exp,
                        !.composition_prompts = resampled,
                        !.title = @ \o VariationMarker,
                        !.summary = @ \o RotationNote]

\* The objects of a call of generate_variation.  task = dict(base_task)
\* copies the references: random.shuffle(task["steps"]) reorders the list
\* that base_task holds too, and a list that is not assigned anew is one
\* object in both tasks.  returned is the task returned, base_after the
\* input task after the call, shared the fields whose list is one object
\* in both.
generate_variation_call(base_task, seed) ==
  [returned   |-> generate_variation(base_task, seed),
   base_after |-> [base_task EXCEPT
                     !.steps = IF Len(@) > 3 THEN permute(@, seed) ELSE @],
   shared     |-> {"steps", "lenses", "success_criteria"}
                  \cup (IF Len(base_task.exposure_presets) > 3
                        THEN {} ELSE {"exposure_presets"})
                  \cup (IF Len(base_task.composition_prompts) > 1
                        THEN {} ELSE {"composition_prompts"})]

(***************************************************************************)
(* st.cache_data: the value a call returned is kept under its arguments    *)
(* until its time to live has passed; a call that raised keeps nothing.    *)
(***************************************************************************)
cache_store(cache, key, result) ==
  IF result.t = "return" THEN (key :> result.v) @@ cache ELSE cache

\* A call of a cached function: what it returns and the cache after it.
\* body is the outcome of running the function.
cached(cache, key, body) ==
  IF key \in DOMAIN cache
  THEN [res |-> Return(cache[key]), cache |-> cache, hit |-> TRUE]
  ELSE the({ [res |-> res, cache |-> cache_store(cache, key, res), hit |-> FALSE] :
             res \in {body} })

EmptyCache == << >>

\* The caches of geocode_location, fetch_pois, fetch_pois_overpass,
\* get_weather and get_weather_open_meteo.
NoCaches ==
  [geo |-> EmptyCache, pois |-> EmptyCache, overpass |-> EmptyCache,
   weather |-> EmptyCache, meteo |-> EmptyCache]

DefaultRadius == 800

\* fetch_pois(lat, lon, radius_m) through the caches: the fallback is
\* called, and its cache filled, only when the Google block fell through.
fetch_pois_cached(secrets, caches, lat, lon, answers) ==
  LET key    == <<lat, lon, DefaultRadius>>
      google == except_Exception(fetch_pois_google_block(secrets, answers.places))
      through(overpass) ==
        the({ [res    |-> call.res,
               caches |-> [caches EXCEPT
                             !.pois = call.cache,
                             !.overpass = IF ~call.hit /\ google.t = "fall"
                                          THEN overpass.cache ELSE @]] :
              call \in {cached(caches.pois, key,
                                fetch_pois(secrets, answers.places, overpass.res))} })
  IN  the({ through(overpass) :
            overpass \in {cached(caches.overpass, key,
                                  fetch_pois_overpass(answers.overpass))} })

\* get_weather(lat, lon) through the caches.
get_weather_cached(secrets, caches, lat, lon, answers) ==
  LET key     == <<lat, lon>>
      primary == except_Exception(
                   get_weather_openweather_block(secrets, answers.openweather))
      through(meteo) ==
        the({ [res    |-> call.res,
               caches |-> [caches EXCEPT
                             !.weather = call.cache,
                             !.meteo = IF ~call.hit /\ primary.t = "fall"
                                       THEN meteo.cache ELSE @]] :
              call \in {cached(caches.weather, key,
                                get_weather(secrets, answers.openweather, meteo.res))} })
  IN  the({ through(meteo) :
            meteo \in {cached(caches.meteo, key,
                               get_weather_open_meteo(answers.meteo))} })

(***************************************************************************)
(* PhotoTaskPlanner.generate_task.                                         *)
(***************************************************************************)
\* strftime("%Y-%m-%d") and strftime("%Y-%m-%d %H:%M") of day number d.
day_str(d) == "2026-11-" \o (IF d < 10 THEN "0" ELSE "") \o str(d)

date_str(d) == day_str(d) \o " 09:30"

\* {t.get("poi_id") for t in history if t.get("date", "").startswith(today)}
\* : the set, or the exception of an entry that is no dict, of a date that
\* is no string or of an unhashable poi_id.
RECURSIVE used_ids_of(_, _, _)
used_ids_of(entries, today, used) ==
  IF entries = <<>> THEN Return(used)
  ELSE LET t == Head(entries)
       IN  IF t.j # "obj" THEN Raise
           ELSE LET date   == dict_get(t, "date", JStr(""))
                    poi_id == dict_get(t, "poi_id", JNull)
                IN  IF date.j # "str" THEN Raise
                    ELSE IF ~startswith(date.s, today)
                    THEN used_ids_of(Tail(entries), today, used)
                    ELSE IF poi_id.j \in {"list", "obj"} THEN Raise
                    ELSE used_ids_of(Tail(entries), today, used \cup {poi_id})

used_ids_today(history, today) ==
  IF history.j = "list" THEN used_ids_of(history.items, today, {})
  ELSE IF (history.j = "str" /\ history.s = "")
          \/ (history.j = "obj" /\ DOMAIN history.o = {})
  THEN Return({})              \* nothing to iterate over
  ELSE Raise

\* [p for p in pois if p["id"] not in used_ids_today and p.get("name")]
RECURSIVE available_of(_, _)
available_of(pois, used) ==
  IF pois = <<>> THEN <<>>
  ELSE LET p    == Head(pois)
           rest == available_of(Tail(pois), used)
       IN  IF JStr(p.id) \notin used /\ p.name # "" THEN <<p>> \o rest ELSE rest

max_pois_of(duration) ==
  IF duration <= 30 THEN 1 ELSE IF duration <= 120 THEN 2 ELSE 3

base_steps_of(duration) ==
  LET s0 == <<"Scout the overall area for 5-10 minutes, noting light patterns and flow",
              "Take 1 wide establishing shot that captures the environment's character",
              "Capture 3 texture/detail studies that define the location",
              "Find 2 human or motion moments that bring life into the frame",
              "Experiment with 2 unusual perspectives (low angle, high angle, or tilted)">>
      s1 == IF duration > 60
            THEN Append(s0, "Build a 3-5 photo series that tells a cohesive story")
            ELSE s0
      s2 == IF duration > 120
            THEN Append(s1, "At one spot, stay for 15 mins working multiple variations of the same subject")
            ELSE s1
  IN  IF duration > 240
      THEN Append(s2, "Attempt a mini-project: 12 images that together narrate the atmosphere")
      ELSE s2

bullets(list) == [i \in 1..Len(list) |-> "  * " \o list[i]]

\* int(x) of a distance kept in millimetres: whole metres.
int_m(mm) == mm \div 1000

\* The loop over enumerate(selected_pois, 1) from stop i on.
RECURSIVE stop_steps(_, _, _, _, _, _)
stop_steps(selected_pois, i, geo, params, weather_summary, seed) ==
  IF i > Len(selected_pois) THEN [steps |-> <<>>, prompts |-> <<>>]
  ELSE LET poi      == selected_pois[i]
           poi_name == poi.name
           category == classify_poi_category(poi.tags)
           tpl      == poi_task_templates(poi_name, category, params.time_of_day,
                                          weather_summary, seed)
           prev     == selected_pois[i - 1]
           dist_m   == IF i = 1
                       THEN haversine_distance(geo.lat, geo.lon, poi.lat, poi.lon)
                       ELSE haversine_distance(prev.lat, prev.lon, poi.lat, poi.lon)
           header   == "**Stop " \o str(i) \o ": " \o poi_name \o "** (~"
                       \o str(int_m(dist_m))
                       \o (IF i = 1 THEN "m from start)" ELSE "m walk)")
       IN  the({ [steps   |-> <<header>> \o bullets(first_n(t.steps, 4))
                              \o rest.steps,
                  prompts |-> t.prompts \o rest.prompts] :
                 t \in {tpl},
                 rest \in {stop_steps(selected_pois, i + 1, geo, params,
                                      weather_summary, seed)} })

\* poi_steps and poi_prompts of generate_task.
poi_section(selected_pois, geo, params, weather_summary, seed) ==
  IF selected_pois # <<>>
  THEN the({ [steps   |-> <<"**Walkable Route (" \o str(Len(selected_pois))
                          \o " stops):**">> \o stops.steps \o <<"">>,
              prompts |-> stops.prompts] :
             stops \in {stop_steps(selected_pois, 1, geo, params, weather_summary,
                                   seed)} })
  ELSE LET loc_data == analyze_location(params.location)
       IN  [steps   |-> IF loc_data.specific_steps # <<>>
                        THEN <<"**Location-specific tasks:**">>
                             \o bullets(first_n(loc_data.specific_steps, 5))
                             \o <<"">>
                        ELSE <<>>,
            prompts |-> <<>>]

WideKeywords == <<"wide", "scout", "environment", "establishing", "series", "story">>
TeleKeywords == <<"detail", "texture", "compression", "tele", "isolate", "long">>

\* key=lambda l: 200 if "70" in l else 35
focal_cue(l) == IF contains(l, "70") THEN 200 ELSE 35

\* min(lenses, key=...) and max(lenses, key=...): the first of the least,
\* the first of the greatest.
min_lens(lenses) ==
  lenses[CHOOSE i \in 1..Len(lenses) :
           /\ \A j \in 1..Len(lenses) : focal_cue(lenses[i]) <= focal_cue(lenses[j])
           /\ \A j \in 1..(i-1) : focal_cue(lenses[j]) > focal_cue(lenses[i])]

max_lens(lenses) ==
  lenses[CHOOSE i \in 1..Len(lenses) :
           /\ \A j \in 1..Len(lenses) : focal_cue(lenses[i]) >= focal_cue(lenses[j])
           /\ \A j \in 1..(i-1) : focal_cue(lenses[j]) < focal_cue(lenses[i])]

\* random.choice of a two-element list, for the step at position i.
choice2(a, b, seed, i) == IF (seed + i) % 2 = 0 THEN a ELSE b

lens_suggestions(steps, lenses, seed) ==
  IF Len(lenses) # 2 THEN steps
  ELSE LET wide_lens == min_lens(lenses)
           tele_lens == max_lens(lenses)
       IN  [i \in 1..Len(steps) |->
              LET s_lower == lower(steps[i])
              IN  IF any_in(WideKeywords, s_lower)
                  THEN steps[i] \o " Use " \o wide_lens
                  ELSE IF any_in(TeleKeywords, s_lower)
                  THEN steps[i] \o " Use " \o tele_lens
                  ELSE steps[i] \o " Try with "
                       \o choice2(wide_lens, tele_lens, seed, i)]

RECURSIVE route_distance(_, _, _, _)
\* The walk from (lat, lon) along selected_pois from stop i on, millimetres.
route_distance(selected_pois, i, lat, lon) ==
  IF i > Len(selected_pois) THEN 0
  ELSE haversine_distance(lat, lon, selected_pois[i].lat, selected_pois[i].lon)
       + route_distance(selected_pois, i + 1, selected_pois[i].lat,
                        selected_pois[i].lon)

\* The part of generate_task after the providers were asked: geo is the
\* geocoding result, pois and weather_summary what fetch_pois and
\* get_weather returned (an empty list and "" when geo is None), used the
\* identifiers used today.
assemble_task(params, history, now, geo, pois, weather_summary, used, seed) ==
  LET available_pois == available_of(pois, used)
      exposures      == generate_exposures(params.is_digital, params.film_iso,
                                           params.time_of_day)
      type_prompts   == get_composition_prompts(params.photo_type, seed)
      gear           == params.camera \o " + " \o join(", ", params.lenses)
                        \o " (" \o params.color_mode \o ")"
                        \o (IF params.is_digital THEN "; RAW+JPEG recommended"
                            ELSE "; " \o params.film_stock \o " @ ISO "
                                 \o params.film_iso)
      task(selected_pois, section, steps, total_distance) ==
        [date |-> date_str(now),
         title |-> title(params.time_of_day) \o " " \o title(params.photo_type)
                   \o " @ " \o params.location,
         summary |-> params.photo_type \o " photo walk in " \o params.location
                     \o " | " \o str(Len(selected_pois)) \o " POI(s) | ~"
                     \o str(int_m(total_distance)) \o "m route | "
                     \o str(params.duration) \o " mins | " \o str(Len(steps))
                     \o " steps",
         when_where |-> title(params.time_of_day) \o " (" \o str(params.duration)
                        \o " min) | " \o params.location,
         photo_type |-> params.photo_type,
         camera |-> params.camera,
         lenses |-> params.lenses,
         gear |-> gear,
         lens_rationale |->
           join(" | ", [i \in 1..Len(params.lenses) |-> lens_rationale(params.lenses[i])]),
         exposure_presets |-> exposures,
         steps |-> steps,
         composition_prompts |->
           IF section.prompts # <<>>
           THEN first_n(list_of_set(type_prompts \o section.prompts, seed), 7)
           ELSE type_prompts,
         contingencies |-> generate_contingencies(params),
         success_criteria |-> generate_success_criteria(params),
         safety_note |-> get_safety_note(params),
         color_mode |-> params.color_mode,
         weather_summary |-> weather_summary,
         poi_id |-> join(", ", [i \in 1..Len(selected_pois) |-> selected_pois[i].id]),
         poi_name |-> join(", ", [i \in 1..Len(selected_pois) |-> selected_pois[i].name]),
         total_walk_distance_m |-> int_m(total_distance)]
      \* if self.is_recent_repeat(task, history): task = self.generate_variation(task)
      finish(t) ==
        the({ IF repeat.t = "raise" THEN [result |-> Raise, variations |-> 0]
              ELSE IF repeat.v
              THEN [result |-> Return(generate_variation(t, seed)), variations |-> 1]
              ELSE [result |-> Return(t), variations |-> 0] :
              repeat \in {is_recent_repeat(t, history, HistoryWindow)} })
      describe(selected_pois, section) ==
        the({ the({ finish(t) :
                    t \in {task(selected_pois, section, steps, total_distance)} }) :
              steps \in {lens_suggestions(
                           section.steps \o base_steps_of(params.duration),
                           params.lenses, seed)},
              total_distance \in {IF selected_pois = <<>> THEN 0
                                  ELSE route_distance(selected_pois, 1, geo.lat,
                                                      geo.lon)} })
      visit(selected_pois) ==
        the({ describe(selected_pois, section) :
              section \in {poi_section(selected_pois, geo, params, weather_summary,
                                       seed)} })
  IN  the({ visit(selected_pois) :
            selected_pois \in {IF geo = None THEN <<>>
                               ELSE build_walkable_route(available_pois, geo.lat,
                                                         geo.lon,
                                                         max_pois_of(params.duration))} })

\* generate_task(params, history): what it returns or that it raises, the
\* caches after the call and the number of calls of generate_variation.
\* answers holds what each provider answers when it is asked.
generate_task(params, history, now, secrets, caches, answers, seed) ==
  LET failed(c) == [result |-> Raise, variations |-> 0, caches |-> c]
      assembled(geo, pois, weather_summary, used, c) ==
        the({ [result |-> out.result, variations |-> out.variations, caches |-> c] :
              out \in {assemble_task(params, history, now, geo, pois,
                                     weather_summary, used, seed)} })
      located(geo, caches1) ==
        IF geo = None THEN assembled(geo, <<>>, "", {}, caches1)
        ELSE the({ the({ IF pois_call.res.t = "raise" THEN failed(pois_call.caches)
                         ELSE IF w_call.res.t = "raise" THEN failed(w_call.caches)
                         ELSE IF used.t = "raise" THEN failed(w_call.caches)
                         ELSE assembled(geo, pois_call.res.v, w_call.res.v, used.v,
                                        w_call.caches) :
                         w_call \in {get_weather_cached(secrets, pois_call.caches,
                                                        geo.lat, geo.lon, answers)},
                         used \in {used_ids_today(history, day_str(now))} }) :
                   pois_call \in {fetch_pois_cached(secrets, caches1, geo.lat,
                                                    geo.lon, answers)} })
  IN  the({ IF geo_call.res.t = "raise"
            THEN failed([caches EXCEPT !.geo = geo_call.cache])
            ELSE located(geo_call.res.v, [caches EXCEPT !.geo = geo_call.cache]) :
            geo_call \in {cached(caches.geo, params.location,
                                 geocode_location(params.location, secrets,
                                                  answers.g, answers.o))} })

(***************************************************************************)
(* The planner page: session parameters, what the providers answer, and    *)
(* the handler of the generate button.                                     *)
(***************************************************************************)
Params(photo_type, location, camera, lenses, time_of_day, duration, weather, is_digital, film_stock, film_iso) ==
  [photo_type |-> photo_type, location |-> location, camera |-> camera,
   lenses |-> lenses, time_of_day |-> time_of_day, duration |-> duration,
   lighting |-> "daylight", weather |-> weather, color_mode |-> "Color",
   is_digital |-> is_digital, film_stock |-> film_stock, film_iso |-> film_iso,
   constraints |-> "Stay local, avoid crowds"]

\* A short street session in the curated city, the same session spelled in
\* another case and longer, a long session without a photo type in a place
\* no guide knows, and a film session at a place a generic guide knows.
ParamsCity == Params("street", "Melbourne CBD", "Fujifilm X-T5",
                     <<"35mm F2", "70-300mm">>, "golden hour", 30, "clear",
                     TRUE, "", "")
ParamsCityAgain == Params("Street", "melbourne cbd ", "Ricoh GR IIIx",
                          <<"fixed ~40mm">>, "golden hour", 90, "rain",
                          TRUE, "", "")
ParamsNowhere == Params("", "Zed", "Fujifilm X-T5", <<"35mm F2">>, "night",
                        150, "clear", TRUE, "", "")
ParamsBeach == Params("landscape", "North Beach", "Nikon FE2",
                      <<"28mm", "50mm">>, "morning", 300, "fog",
                      FALSE, "Kodak Portra 400", "400")

NotAsked == [kind |-> "not asked"]

\* What the providers know about the places of the model.
OkGeo == [kind |-> "ok", lat |-> 0, lon |-> 0]

OkPlaces ==
  [kind |-> "ok",
   results |-> <<Place("gp3", "Cafe Long", 3, 1, <<"cafe", "food">>),
                 Place("gp6", "Old Bridge", 0, 2, <<"bridge">>),
                 Place("gp7", "", 1, 1, <<"park">>),
                 Place("gp8", "Rose Garden", 1, -1, <<"park">>),
                 Place("gp9", "Art House", 2, 2, <<"art_gallery">>)>>]

\* Bay Pier lies on the equator; node/8 has no latitude.
OkOverpass ==
  [kind |-> "ok",
   elements |-> <<Element("node", "5", PoiE.tags, {1}, {-1}),
                  Element("node", "2", PoiB.tags, {0}, {1}),
                  Area("way", "4", PoiD.tags, {3}, {1}),
                  Element("node", "1", PoiA.tags, {1}, {2}),
                  Element("node", "8", PoiB.tags, {}, {1}),
                  Element("node", "9",
                          OsmTags("Hill Lookout", "", "viewpoint", "", "", "",
                                  "", ""), {2}, {-1}),
                  Element("node", "10",
                          OsmTags("City Museum", "", "museum", "", "", "", "",
                                  ""), {-1}, {-2})>>]

OkOpenWeather ==
  [kind |-> "ok", temp |-> "18", description |-> "light rain",
   humidity |-> "80", speed |-> "3"]

OkMeteo == [kind |-> "ok", temperature |-> "21", windspeed |-> "12"]

VARIABLES
  secrets,     \* the keys of st.secrets
  caches,      \* the st.cache_data caches
  file,        \* the history file
  today,       \* the calendar day, a day number
  gens,        \* number of runs of the generate handler
  log,         \* the tasks saved since the history file was last absent
  last         \* the last run of a handler: its inputs and what it produced

planner_vars == <<secrets, caches, file, today, gens, log, last>>

NoRun == [op |-> "none"]

PlannerIdle ==
  /\ secrets = {} /\ caches = NoCaches /\ file = NoFile /\ today = 1
  /\ gens = 0 /\ log = <<>> /\ last = NoRun

\* Which providers a run of generate_task asks, given what the earlier ones
\* answered: a provider that is not asked answers nothing.
asks_osm(params, answers) ==
  /\ params.location \notin DOMAIN caches.geo
  /\ except_Exception(geocode_google_block(params.location, secrets, answers.g)).t
       = "fall"

geo_of(params, answers) ==
  cached(caches.geo, params.location,
         geocode_location(params.location, secrets, answers.g, answers.o)).res

asks_places(params, answers) ==
  LET geo == geo_of(params, answers)
  IN  /\ geo.t = "return" /\ geo.v # None
      /\ <<geo.v.lat, geo.v.lon, DefaultRadius>> \notin DOMAIN caches.pois

asks_overpass(params, answers) ==
  LET geo == geo_of(params, answers)
  IN  /\ asks_places(params, answers)
      /\ except_Exception(fetch_pois_google_block(secrets, answers.places)).t = "fall"
      /\ <<geo.v.lat, geo.v.lon, DefaultRadius>> \notin DOMAIN caches.overpass

asks_openweather(params, answers) ==
  LET geo == geo_of(params, answers)
  IN  /\ geo.t = "return" /\ geo.v # None
      /\ <<geo.v.lat, geo.v.lon>> \notin DOMAIN caches.weather

asks_meteo(params, answers) ==
  LET geo == geo_of(params, answers)
  IN  /\ asks_openweather(params, answers)
      /\ except_Exception(
           get_weather_openweather_block(secrets, answers.openweather)).t = "fall"
      /\ <<geo.v.lat, geo.v.lon>> \notin DOMAIN caches.meteo

OrNotAsked(asked, answer_set) == IF asked THEN answer_set ELSE {NotAsked}

\* The handler of the generate button: history = load_history(),
\* task = planner.generate_task(params, history), save_task(task).
GenerateAndSave(params, answers, seed) ==
  \E history \in {load_history(file)} :
    \E out \in {generate_task(params, history, today, secrets, caches,
                              answers, seed)} :
      \E saved \in {IF out.result.t = "return"
                     THEN save_task(file, out.result.v)
                     ELSE [file |-> file, result |-> Raise]} :
        /\ caches' = out.caches
        /\ file' = saved.file
        /\ gens' = gens + 1
        /\ log' = IF saved.result.t = "return"
                  THEN Append(log, out.result.v) ELSE log
        /\ last' = [op |-> "generate", params |-> params, answers |-> answers,
                    seed |-> seed, day |-> today, history |-> history,
                    result |-> out.result, variations |-> out.variations,
                    saved |-> saved.result]
        /\ UNCHANGED <<secrets, today>>

\* The answers of the providers that are asked, drawn provider by provider.
Generate(param_set, seed_set, G, O, P, V, W, M) ==
  \E params \in param_set, seed \in seed_set :
    \E g \in OrNotAsked(params.location \notin DOMAIN caches.geo
                          /\ GOOGLE_MAPS_KEY \in secrets, G) :
      \E o \in OrNotAsked(asks_osm(params, [g |-> g]), O) :
        \E pl \in OrNotAsked(asks_places(params, [g |-> g, o |-> o])
                               /\ GOOGLE_MAPS_KEY \in secrets, P) :
          \E ov \in OrNotAsked(asks_overpass(params,
                                 [g |-> g, o |-> o, places |-> pl]), V) :
            \E ow \in OrNotAsked(asks_openweather(params, [g |-> g, o |-> o])
                                   /\ OPENWEATHER_KEY \in secrets, W) :
              \E me \in OrNotAsked(asks_meteo(params,
                                     [g |-> g, o |-> o, openweather |-> ow]), M) :
                GenerateAndSave(params,
                                [g |-> g, o |-> o, places |-> pl, overpass |-> ov,
                                 openweather |-> ow, meteo |-> me],
                                seed)

\* The sessions the page is run with.
ParamSet == {ParamsCity, ParamsCityAgain, ParamsNowhere}

\* The next calendar day begins.
NextDay ==
  /\ today < MaxDay
  /\ today' = today + 1
  /\ UNCHANGED <<secrets, caches, file, gens, log, last>>

\* The time to live of the cached values passes.
ExpireCaches ==
  /\ caches # NoCaches
  /\ caches' = NoCaches
  /\ UNCHANGED <<secrets, file, today, gens, log, last>>

\* The "Clear All History" button of the history page: os.remove.
ClearHistory ==
  /\ file.exists
  /\ file' = NoFile
  /\ log' = <<>>
  /\ last' = [op |-> "clear"]
  /\ UNCHANGED <<secrets, caches, today, gens>>

\* A call of load_history().
LoadHistory ==
  /\ last' = [op |-> "load", result |-> load_history(file)]
  /\ UNCHANGED <<secrets, caches, file, today, gens, log>>

\* A call of haversine_distance.
Haversine(lat1, lon1, lat2, lon2) ==
  /\ last' = [op |-> "haversine_distance", lat1 |-> lat1, lon1 |-> lon1,
              lat2 |-> lat2, lon2 |-> lon2,
              result |-> haversine_distance(lat1, lon1, lat2, lon2)]
  /\ UNCHANGED <<secrets, caches, file, today, gens, log>>

\* A call of generate_variation(base_task).
Vary(base_task, seed) ==
  \E call \in {generate_variation_call(base_task, seed)} :
    /\ last' = [op |-> "generate_variation", base_task |-> base_task,
                seed |-> seed, result |-> call.returned,
                base_after |-> call.base_after, shared |-> call.shared]
    /\ UNCHANGED <<secrets, caches, file, today, gens, log>>

\* save_task(task), one call at a time.
SaveTask(task) ==
  \E saved \in {save_task(file, task)} :
      /\ file' = saved.file
      /\ log' = IF saved.result.t = "return" THEN Append(log, task) ELSE log
      /\ last' = [op |-> "save", task |-> task, saved |-> saved.result]
      /\ UNCHANGED <<secrets, caches, today, gens>>

\* geocode_location(query) with what the two providers answer when asked.
Geocode(query, g, o) ==
  \E call \in {cached(caches.geo, query,
                      geocode_location(query, secrets, g, o))} :
      /\ caches' = [caches EXCEPT !.geo = call.cache]
      /\ last' = [op |-> "geocode", query |-> query, g |-> g, o |-> o,
                  hit |-> call.hit, result |-> call.res]
      /\ UNCHANGED <<secrets, file, today, gens, log>>

\* A call of fetch_pois(lat, lon, radius_m) that finds nothing cached.
FetchPois(places, overpass) ==
  /\ last' = [op |-> "fetch_pois", places |-> places, overpass |-> overpass,
              result |-> fetch_pois(secrets, places,
                                    fetch_pois_overpass(overpass))]
  /\ UNCHANGED <<secrets, caches, file, today, gens, log>>

\* A call of fetch_pois_overpass(lat, lon, radius_m).
FetchPoisOverpass(overpass) ==
  /\ last' = [op |-> "fetch_pois_overpass", overpass |-> overpass,
              result |-> fetch_pois_overpass(overpass)]
  /\ UNCHANGED <<secrets, caches, file, today, gens, log>>

\* A call of classify_poi_category(poi["tags"]), as the loop over the
\* selected POIs makes it.
Classify(poi) ==
  /\ last' = [op |-> "classify_poi_category", poi |-> poi,
              result |-> classify_poi_category(poi.tags)]
  /\ UNCHANGED <<secrets, caches, file, today, gens, log>>

\* A call of generate_exposures.
GenerateExposures(is_digital, film_iso, time_of_day) ==
  /\ last' = [op |-> "generate_exposures", is_digital |-> is_digital,
              film_iso |-> film_iso, time_of_day |-> time_of_day,
              result |-> generate_exposures(is_digital, film_iso, time_of_day)]
  /\ UNCHANGED <<secrets, caches, file, today, gens, log>>

\* A call of generate_success_criteria.
GenerateSuccessCriteria(params) ==
  /\ last' = [op |-> "generate_success_criteria", params |-> params,
              result |-> generate_success_criteria(params)]
  /\ UNCHANGED <<secrets, caches, file, today, gens, log>>

\* A call of get_composition_prompts.
GetCompositionPrompts(photo_type, seed) ==
  /\ last' = [op |-> "get_composition_prompts", photo_type |-> photo_type,
              seed |-> seed,
              result |-> get_composition_prompts(photo_type, seed)]
  /\ UNCHANGED <<secrets, caches, file, today, gens, log>>

\* The lens-suggestion block of generate_task, for the steps it combined.
SuggestLenses(steps, lenses, seed) ==
  /\ last' = [op |-> "lens_suggestions", steps |-> steps, lenses |-> lenses,
              seed |-> seed, result |-> lens_suggestions(steps, lenses, seed)]
  /\ UNCHANGED <<secrets, caches, file, today, gens, log>>

(***************************************************************************)
(* Browser sessions.  Streamlit runs the script of each session in a       *)
(* thread of its own; save_task reads the history file and writes it back  *)
(* in two steps, and the steps of two sessions can alternate.              *)
(***************************************************************************)
VARIABLES
  s_pc,        \* where each session is in save_task: "idle" or "loaded"
  s_history,   \* the history each session loaded
  s_task       \* the task each session saves

session_vars == <<s_pc, s_history, s_task>>

Sessions == {"s1", "s2"}

SessionsIdle ==
  /\ s_pc = [s \in Sessions |-> "idle"]
  /\ s_history = [s \in Sessions |-> JList(<<>>)]
  /\ s_task = [s \in Sessions |-> None]

\* The save_task calls begun: those that returned and those in between.
started == Len(log) + Cardinality({ s \in Sessions : s_pc[s] = "loaded" })

\* history = load_history(), the first line of save_task(task).
SaveLoad(s, task) ==
  /\ s_pc[s] = "idle"
  /\ s_pc' = [s_pc EXCEPT ![s] = "loaded"]
  /\ s_history' = [s_history EXCEPT ![s] = load_history(file)]
  /\ s_task' = [s_task EXCEPT ![s] = task]
  /\ UNCHANGED planner_vars

\* The rest of save_task: append, keep the last 7, write the file.
SaveWrite(s) ==
  /\ s_pc[s] = "loaded"
  /\ s_history[s].j = "list"
  /\ \E kept \in {written(s_history[s], file, s_task[s])} :
       /\ file' = FileOf(kept)
       /\ last' = [op |-> "save", task |-> s_task[s], saved |-> Return(kept)]
  /\ log' = Append(log, s_task[s])
  /\ s_pc' = [s_pc EXCEPT ![s] = "idle"]
  /\ s_history' = [s_history EXCEPT ![s] = JList(<<>>)]
  /\ s_task' = [s_task EXCEPT ![s] = None]
  /\ UNCHANGED <<secrets, caches, today, gens>>

(***************************************************************************)
(* is_recent_repeat applied to bounded histories.                          *)
(***************************************************************************)
VARIABLES
  rp_task,     \* is_recent_repeat: new_task
  rp_history,  \* is_recent_repeat: history
  rp_result,   \* is_recent_repeat: what the call returned, or that it raised
  rp_done      \* is_recent_repeat has been called

repeat_vars == <<rp_task, rp_history, rp_result, rp_done>>

RepeatIdle ==
  /\ rp_task = [photo_type |-> "", when_where |-> ""]
  /\ rp_history = JList(<<>>)
  /\ rp_result = Return(FALSE)
  /\ rp_done = FALSE

\* History entries: one that matches the new task up to case and blanks,
\* one of another photo type, one saved by the first version of the app
\* (no photo_type), one with an empty photo type, one with a null
\* when_where, one with a number as photo type, and one that is no object.
EntryMatch ==
  JObj([photo_type |-> JStr("Street"),
        when_where |-> JStr("Golden Hour (30 min) | Melbourne CBD")])
EntryOther ==
  JObj([photo_type |-> JStr("portrait"),
        when_where |-> JStr("Night (60 min) | Melbourne CBD")])
EntryNoType ==
  JObj([title |-> JStr("street session"),
        when_where |-> JStr("golden hour for 30 mins at melbourne cbd")])
EntryEmptyType ==
  JObj([photo_type |-> JStr(""),
        when_where |-> JStr("Golden Hour (30 min) | Melbourne CBD")])
EntryNullWhere ==
  JObj([photo_type |-> JStr("street"), when_where |-> JNull])
EntryNumberType ==
  JObj([photo_type |-> JNum(5),
        when_where |-> JStr("Golden Hour (30 min) | Melbourne CBD")])
EntryNoObject == JStr("street")

RepeatEntries ==
  {EntryMatch, EntryOther, EntryNoType, EntryEmptyType, EntryNullWhere,
   EntryNumberType, EntryNoObject}

RECURSIVE SeqsUpTo(_, _)
SeqsUpTo(S, n) ==
  IF n = 0 THEN { <<>> }
  ELSE LET shorter == SeqsUpTo(S, n - 1)
       IN  shorter \cup { Append(q, x) : q \in shorter, x \in S }

Filler(n) == [i \in 1..n |-> EntryOther]

\* Bounded histories, alone or with a full window of other entries before
\* or after them, and two values that are no list.
RepeatHistories ==
  LET cores == SeqsUpTo(RepeatEntries, MaxHist)
  IN  { JList(q) : q \in cores }
        \cup { JList(Filler(HistoryWindow) \o q) : q \in cores }
        \cup { JList(q \o Filler(HistoryWindow)) : q \in cores }
        \cup { JNull, JObj([photo_type |-> JStr("street")]) }

RepeatTasks ==
  { [photo_type |-> "street", when_where |-> "Morning (45 min) | melbourne cbd"],
    [photo_type |-> "STREET",
     when_where |-> "Night (15 min) | Docks | Melbourne CBD "],
    [photo_type |-> "", when_where |-> "Golden Hour (30 min) | Melbourne CBD"] }

RepeatInit ==
  /\ rp_task \in RepeatTasks
  /\ rp_history \in RepeatHistories
  /\ rp_result = Return(FALSE)
  /\ rp_done = FALSE

IsRecentRepeat ==
  /\ ~rp_done
  /\ rp_result' = is_recent_repeat(rp_task, rp_history, HistoryWindow)
  /\ rp_done' = TRUE
  /\ UNCHANGED <<rp_task, rp_history>>

(***************************************************************************)
(* Specifications.                                                         *)
(***************************************************************************)
vars == <<route_vars, planner_vars, repeat_vars, session_vars>>

\* build_walkable_route applied to every bounded input.
RouteStart == RouteInit /\ PlannerIdle /\ RepeatIdle /\ SessionsIdle

RouteNext == BuildRoute /\ UNCHANGED <<planner_vars, repeat_vars, session_vars>>

SpecRoute == RouteStart /\ [][RouteNext]_vars

\* is_recent_repeat applied to every bounded input.
RepeatStart == RepeatInit /\ RouteIdle /\ PlannerIdle /\ SessionsIdle

RepeatNext == IsRecentRepeat /\ UNCHANGED <<route_vars, planner_vars, session_vars>>

SpecRepeat == RepeatStart /\ [][RepeatNext]_vars

\* Sequences of save_task calls on a history file that starts absent.
StoreTasks ==
  { generate_task(p, JList(<<>>), 1, {}, NoCaches,
                  [g |-> NotAsked, o |-> [kind |-> "neterr"],
                   places |-> NotAsked, overpass |-> NotAsked,
                   openweather |-> NotAsked, meteo |-> NotAsked],
                  0).result.v : p \in {ParamsCity, ParamsBeach} }

StoreStart == PlannerIdle /\ RouteIdle /\ RepeatIdle /\ SessionsIdle /\ SessionsIdle

StoreNext ==
  /\ Len(log) < MaxSaves
  /\ \E task \in StoreTasks : SaveTask(task)
  /\ UNCHANGED <<route_vars, repeat_vars, session_vars>>

SpecStore == StoreStart /\ [][StoreNext]_vars

\* Calls of haversine_distance on points next to each other and whole
\* degrees apart (1 degree = 1000 units).
Degree == 1000

Latitudes == {-Degree, -3, 0, 2, Degree, 2 * Degree}

Longitudes == {-2, 0, 3, Degree}

DistanceNext ==
  /\ last = NoRun
  /\ \E lat1 \in Latitudes, lon1 \in Longitudes,
        lat2 \in Latitudes, lon2 \in Longitudes :
       Haversine(lat1, lon1, lat2, lon2)
  /\ UNCHANGED <<route_vars, repeat_vars, session_vars>>

SpecDistance == StoreStart /\ [][DistanceNext]_vars

\* Two sessions that save tasks, their steps in any order, on a history
\* file that starts absent.
SessionsNext ==
  /\ \/ \E s \in Sessions, task \in StoreTasks :
          started < MaxStarted /\ SaveLoad(s, task)
     \/ \E s \in Sessions : SaveWrite(s)
  /\ UNCHANGED <<route_vars, repeat_vars>>

SpecSessions == StoreStart /\ [][SessionsNext]_vars

\* A history file that something else wrote or cut short: text that does
\* not parse, JSON that is no array, an array of something else than
\* task records, and for comparison no file and an empty array.
MalformedFiles ==
  { GarbledFile,
    FileOf(JObj([date |-> JStr("2024-05-01")])),
    FileOf(JStr("task history")),
    FileOf(JNum(7)),
    FileOf(JNull),
    FileOf(JList(<<JStr("2024-05-01")>>)) }

MalformedStart ==
  /\ file \in MalformedFiles \cup {NoFile, FileOf(JList(<<>>))}
  /\ secrets = {} /\ caches = NoCaches /\ today = 1
  /\ gens = 0 /\ log = <<>> /\ last = NoRun
  /\ RouteIdle /\ RepeatIdle /\ SessionsIdle

MalformedNext ==
  /\ \/ last.op # "load" /\ LoadHistory
     \/ Len(log) < MaxRepairs /\ \E task \in StoreTasks : SaveTask(task)
  /\ UNCHANGED <<route_vars, repeat_vars, session_vars>>

SpecMalformed == MalformedStart /\ [][MalformedNext]_vars

\* Calls of geocode_location with every answer of the two providers, with
\* and without the Google key.
Queries == {"Melbourne CBD", "Zed"}

GeoPoints == {<<0, 0>>, <<3, 1>>}

GeoStart ==
  /\ secrets \in SUBSET {GOOGLE_MAPS_KEY}
  /\ caches = NoCaches /\ file = NoFile /\ today = 1
  /\ gens = 0 /\ log = <<>> /\ last = NoRun
  /\ RouteIdle /\ RepeatIdle /\ SessionsIdle

GeoCall ==
  \E query \in Queries :
    \E g \in OrNotAsked(query \notin DOMAIN caches.geo
                          /\ GOOGLE_MAPS_KEY \in secrets, GeoAnswers(GeoPoints)) :
      \E o \in OrNotAsked(query \notin DOMAIN caches.geo
                            /\ except_Exception(
                                 geocode_google_block(query, secrets, g)).t = "fall",
                          GeoAnswers(GeoPoints)) :
        Geocode(query, g, o)

GeoNext ==
  /\ GeoCall \/ ExpireCaches
  /\ UNCHANGED <<route_vars, repeat_vars, session_vars>>

SpecGeo == GeoStart /\ [][GeoNext]_vars

\* Calls of fetch_pois and fetch_pois_overpass.  The elements Overpass
\* answers with: points and areas, named (by name or by ref) and unnamed,
\* one on the equator, one on the prime meridian, one area without a
\* center; their identifiers are not in the order of the answer.
ElNamed7 == Element("node", "7", PoiA.tags, {1}, {2})
ElUnnamed3 == Element("node", "3", PoiD.tags, {2}, {1})
ElEquator12 ==
  Element("node", "12", OsmTags("", "B12", "", "", "", "", "bridge", ""), {0}, {1})
ElMeridian10 == Element("node", "10", PoiD.tags, {1}, {0})
ArNamed5 == Area("way", "5", PoiE.tags, {3}, {1})
ArUnnamed20 == Area("way", "20", PoiD.tags, {-1}, {-2})
ArNoCenter6 == Area("way", "6", PoiB.tags, {}, {})

ElementPool ==
  { ElNamed7, ElUnnamed3, ElEquator12, ElMeridian10, ArNamed5, ArUnnamed20,
    ArNoCenter6 }

\* An answer of n points, every second one unnamed.
ManyElements(n) ==
  [i \in 1..n |->
     Element("node", str(100 + i),
             OsmTags(IF i % 2 = 0 THEN "" ELSE "Spot " \o str(i), "", "artwork",
                     "", "", "", "", ""),
             {(i % 5) + 1}, {(i % 3) + 1})]

ManyPlaces(n) ==
  [i \in 1..n |->
     Place("gp" \o str(100 + i), IF i % 2 = 0 THEN "" ELSE "Venue " \o str(i),
           (i % 5) + 1, (i % 3) + 1, <<"point_of_interest">>)]

Long == (PoiCap - 1)..MaxResults

OverpassAnswers ==
  { [kind |-> "ok", elements |-> q] : q \in DistinctSeqs(ElementPool, MaxPois) }
    \cup { [kind |-> "ok", elements |-> ManyElements(n)] : n \in Long }
    \cup Failures

PlacesAnswers ==
  { OkPlaces } \cup { [kind |-> "ok", results |-> ManyPlaces(n)] : n \in Long }
    \cup Failures

PoisStart ==
  /\ secrets \in SUBSET {GOOGLE_MAPS_KEY}
  /\ caches = NoCaches /\ file = NoFile /\ today = 1
  /\ gens = 0 /\ log = <<>> /\ last = NoRun
  /\ RouteIdle /\ RepeatIdle /\ SessionsIdle

FetchPoisCall ==
  /\ last = NoRun
  /\ \E pl \in OrNotAsked(GOOGLE_MAPS_KEY \in secrets, PlacesAnswers) :
       \E ov \in OrNotAsked(except_Exception(
                               fetch_pois_google_block(secrets, pl)).t = "fall",
                            OverpassAnswers) :
         FetchPois(pl, ov)

FetchPoisOverpassCall ==
  /\ last = NoRun
  /\ \E ov \in OverpassAnswers : FetchPoisOverpass(ov)

PoisNext ==
  /\ FetchPoisCall \/ FetchPoisOverpassCall
  /\ UNCHANGED <<route_vars, repeat_vars, session_vars>>

SpecPois == PoisStart /\ [][PoisNext]_vars

\* Calls of classify_poi_category with the POIs the two providers give.
\* An OpenStreetMap element carries at most MaxTags of the six tags the
\* Overpass query asks for, and any "type" tag; a Google place carries at
\* most MaxTags types.
TagValues ==
  [tourism  |-> {"viewpoint", "museum", "artwork", "attraction"},
   amenity  |-> {"marketplace", "cafe", "bar", "restaurant", "Theatre"},
   leisure  |-> {"park", "garden", "marina"},
   natural  |-> {"beach", "coastline", "cliff"},
   man_made |-> {"bridge", "pier", "lighthouse"},
   shop     |-> {"mall", "department_store", "supermarket"}]

Hints(key) == TagValues[key] \cup {""}

OsmTagSets ==
  { [tags EXCEPT !.type = type] :
      tags \in { t \in { OsmTags("", "", a, b, c, d, e, f) :
                           a \in Hints("tourism"), b \in Hints("amenity"),
                           c \in Hints("leisure"), d \in Hints("natural"),
                           e \in Hints("man_made"), f \in Hints("shop") } :
                   Cardinality({ k \in DOMAIN TagValues : t[k] # "" }) <= MaxTags },
      type \in {"", "multipolygon", "google_place"} }

PlaceTypes ==
  {"park", "museum", "art_gallery", "shopping_mall", "department_store",
   "restaurant", "cafe", "Bar", "tourist_attraction", "point_of_interest",
   "natural_feature", "bridge", "parking", "store", "establishment"}

ClassifiedPois ==
  { overpass_pois(<<Element("node", "1", tags, {1}, {2})>>)[1] :
      tags \in OsmTagSets }
    \cup { google_pois(<<Place("gp1", "Venue", 1, 2, types)>>)[1] :
             types \in DistinctSeqs(PlaceTypes, MaxTags) }

ClassifyCall ==
  /\ last = NoRun
  /\ \E poi \in ClassifiedPois : Classify(poi)
  /\ UNCHANGED <<route_vars, repeat_vars, session_vars>>

SpecClassify == StoreStart /\ [][ClassifyCall]_vars

\* One run of the generate handler for every combination of what the
\* providers answer, with every combination of configured keys, under one
\* outcome of the random choices.
AnyAnswer(ok) == {ok} \cup Failures

TaskParams == {ParamsCity, ParamsNowhere, ParamsBeach}

TaskStart ==
  /\ secrets \in SUBSET {GOOGLE_MAPS_KEY, OPENWEATHER_KEY}
  /\ caches = NoCaches /\ file = NoFile /\ today = 1
  /\ gens = 0 /\ log = <<>> /\ last = NoRun
  /\ RouteIdle /\ RepeatIdle /\ SessionsIdle

TaskNext ==
  /\ gens = 0
  /\ Generate(TaskParams, {0}, AnyAnswer(OkGeo), AnyAnswer(OkGeo),
              AnyAnswer(OkPlaces), AnyAnswer(OkOverpass),
              AnyAnswer(OkOpenWeather), AnyAnswer(OkMeteo))
  /\ UNCHANGED <<route_vars, repeat_vars, session_vars>>

SpecTask == TaskStart /\ [][TaskNext]_vars

\* Calls of the content generators with what the sidebar offers: the
\* times of day, film speeds, durations of the slider around the
\* thresholds, photo types as free text, and the lenses of each camera in
\* either order of selection.
TimesOfDay == {"morning", "midday", "golden hour", "blue hour", "night"}

FilmIsos == {"100", "400", "800"}

Durations == {15, 30, 59, 60, 61, 90, 120, 121, 200, 240, 241, 300, 360}

PhotoTypes ==
  {"street", "Portrait", "cityscape", "night street", "architecture",
   "wildlife", "landscape at dusk", "macro", ""}

\* The keys of the composition-prompt table, as photo types.
GenreKeys == { composition_prompts[i].key : i \in 1..Len(composition_prompts) }

LensSets ==
  { <<"35mm F2", "70-300mm">>, <<"70-300mm", "35mm F2">>, <<"28mm", "50mm">>,
    <<"50mm", "28mm">>, <<"35mm F2">>, <<"fixed ~40mm">> }

\* steps = poi_steps + base_steps, with a route and with a location guide.
CombinedSteps ==
  { poi_section(pois, OkGeo, p, "", 0).steps \o base_steps_of(p.duration) :
      pois \in {<<>>, <<PoiA>>, <<PoiE, PoiB>>},
      p \in {ParamsCity, ParamsCityAgain, ParamsNowhere, ParamsBeach} }

ContentCall ==
  \/ \E d \in BOOLEAN, iso \in FilmIsos, t \in TimesOfDay :
       GenerateExposures(d, iso, t)
  \/ \E type \in PhotoTypes, duration \in Durations :
       GenerateSuccessCriteria([ParamsCity EXCEPT !.photo_type = type,
                                                 !.duration = duration])
  \/ \E steps \in CombinedSteps, lenses \in LensSets, seed \in Seeds :
       SuggestLenses(steps, lenses, seed)
  \/ \E type \in PhotoTypes \cup GenreKeys, seed \in Seeds :
       GetCompositionPrompts(type, seed)

ContentNext ==
  /\ last = NoRun
  /\ ContentCall
  /\ UNCHANGED <<route_vars, repeat_vars, session_vars>>

SpecContent == StoreStart /\ [][ContentNext]_vars

\* Calls of generate_variation on the tasks generate_task builds for
\* digital and film sessions of every time of day, short and long, with
\* a route and without one.
NoRouteAnswers ==
  [g |-> NotAsked, o |-> [kind |-> "neterr"], places |-> NotAsked,
   overpass |-> NotAsked, openweather |-> NotAsked, meteo |-> NotAsked]

RouteAnswers ==
  [g |-> NotAsked, o |-> OkGeo, places |-> NotAsked, overpass |-> OkOverpass,
   openweather |-> NotAsked, meteo |-> OkMeteo]

VariedParams ==
  { [ParamsCity EXCEPT !.time_of_day = t, !.duration = d, !.is_digital = b,
                       !.film_iso = "400"] :
      t \in TimesOfDay, d \in {30, 90, 300}, b \in BOOLEAN }

VariationTasks ==
  { generate_task(p, JList(<<>>), 1, {}, NoCaches, a, 0).result.v :
      p \in VariedParams, a \in {NoRouteAnswers, RouteAnswers} }

VariationNext ==
  /\ last = NoRun
  /\ \E base_task \in VariationTasks, seed \in Seeds : Vary(base_task, seed)
  /\ UNCHANGED <<route_vars, repeat_vars, session_vars>>

SpecVariation == StoreStart /\ [][VariationNext]_vars

\* One run of the generate handler at a place both geocoders know, where
\* the POI providers know named and unnamed places, unnamed places only,
\* or nothing.
UnnamedPlaces ==
  [kind |-> "ok",
   results |-> <<Place("gp21", "", 1, 1, <<"park">>),
                 Place("gp22", "", 2, -1, <<"cafe">>)>>]

UnnamedOverpass ==
  [kind |-> "ok",
   elements |-> <<Element("node", "21", PoiD.tags, {1}, {1}),
                  Area("way", "22", PoiD.tags, {2}, {2})>>]

CandidatesNext ==
  /\ gens = 0
  /\ Generate(TaskParams \cup {ParamsCityAgain}, Seeds, {OkGeo}, {OkGeo},
              AnyAnswer(OkPlaces) \cup {UnnamedPlaces},
              {OkOverpass, UnnamedOverpass}, {OkOpenWeather}, {OkMeteo})
  /\ UNCHANGED <<route_vars, repeat_vars, session_vars>>

SpecCandidates == TaskStart /\ [][CandidatesNext]_vars

\* The planner over several days: runs of the generate handler and cleared
\* histories, within the time to live of the cached values.
Init ==
  /\ secrets \in {{}, {GOOGLE_MAPS_KEY, OPENWEATHER_KEY}}
  /\ caches = NoCaches /\ file = NoFile /\ today = 1
  /\ gens = 0 /\ log = <<>> /\ last = NoRun
  /\ RouteIdle /\ RepeatIdle /\ SessionsIdle

GenerateStep ==
  /\ gens < MaxGens
  /\ Generate(ParamSet, Seeds, {OkGeo}, {OkGeo}, {OkPlaces}, {OkOverpass},
              {OkOpenWeather}, {OkMeteo})

Next ==
  /\ GenerateStep \/ NextDay \/ ClearHistory
  /\ UNCHANGED <<route_vars, repeat_vars, session_vars>>

Spec == Init /\ [][Next]_vars

\* Runs of the generate handler for one photo type and place, spelled in
\* two ways, on one day: from the second run on every task is a variation
\* and the history holds variations.
RepeatedNext ==
  /\ gens < MaxRuns
  /\ Generate({ParamsCity, ParamsCityAgain}, Seeds, {OkGeo}, {OkGeo},
              {OkPlaces}, {OkOverpass}, {OkOpenWeather}, {OkMeteo})
  /\ UNCHANGED <<route_vars, repeat_vars, session_vars>>

SpecRepeated == Init /\ [][RepeatedNext]_vars

(***************************************************************************)
(* Properties.                                                             *)
(***************************************************************************)

\* C1: build_walkable_route returns exactly min(N, K) stops for N
\* candidates and stop cap K >= 0, every stop is one of the candidates and
\* no POI identifier appears twice in the route.
RouteCapInvariant ==
  r_done =>
    /\ Len(r_route) = Min2(Len(r_pois), r_max)
    /\ \A i \in 1..Len(r_route) : r_route[i] \in Range(r_pois)
    /\ \A i, j \in 1..Len(r_route) : i # j => r_route[i].id # r_route[j].id

\* The cap cut the route short of the candidates, and more than one stop
\* was chosen.
RouteCapWitness ==
  r_done /\ Len(r_pois) = 3 /\ r_max = 2 /\ Len(r_route) = 2

\* C2: every stop of the route has minimum distance, among the candidates
\* not chosen before it, to the previous stop (to the origin for the first).
RouteGreedyProperty ==
  r_done =>
    \A i \in 1..Len(r_route) :
      LET prev    == IF i = 1 THEN r_start
                     ELSE <<r_route[i-1].lat, r_route[i-1].lon>>
          earlier == { r_route[j] : j \in 1..(i-1) }
          d(p)    == haversine_distance(prev[1], prev[2], p.lat, p.lon)
      IN  \A c \in Range(r_pois) \ earlier : d(r_route[i]) <= d(c)

\* A route of three stops whose order is not the order of the candidates.
RouteGreedyWitness ==
  r_done /\ Len(r_route) = 3 /\ r_route[1] = r_pois[3] /\ r_route[2] = r_pois[1]

\* 1-based position of the first occurrence of sub in s, 0 when absent.
find(s, sub) ==
  LET hits == { i \in 1..(Len(s) - Len(sub) + 1) :
                  SubSeq(s, i, i + Len(sub) - 1) = sub }
  IN  IF hits = {} THEN 0 ELSE CHOOSE i \in hits : \A k \in hits : i <= k

\* The parts of s between the occurrences of sep.
RECURSIVE split(_, _)
split(s, sep) ==
  LET k == find(s, sep)
  IN  IF k = 0 THEN <<s>>
      ELSE <<SubSeq(s, 1, k - 1)>> \o split(SubSeq(s, k + Len(sep), Len(s)), sep)

\* The POI identifiers of the route a task records in its poi_id field.
route_ids(poi_id) == Range(split(poi_id, ", ")) \ {""}

Generated == last.op = "generate" /\ last.result.t = "return"

\* The entries of the history handed to the last run of generate_task that
\* were created on the day of that run.
SameDayEntries ==
  { i \in 1..Len(last.history.items) :
      startswith(last.history.items[i].o.date.s, day_str(last.day)) }

\* C3: over sequences of generate-and-save actions, no POI of the route of a
\* task that is in the history and was created on the day of the run is
\* selected for the route of the newly generated task, whatever the number
\* of stops of the earlier task.
SameDayPoiExclusion ==
  Generated =>
    \A i \in SameDayEntries :
      route_ids(last.history.items[i].o.poi_id.s)
        \cap route_ids(last.result.v.poi_id) = {}

\* What remains of C3: the POI of an earlier task of the day with one stop
\* is not selected again.
SingleStopPoiExclusion ==
  Generated =>
    \A i \in SameDayEntries :
      LET earlier == route_ids(last.history.items[i].o.poi_id.s)
      IN  Cardinality(earlier) = 1
            => earlier \cap route_ids(last.result.v.poi_id) = {}

\* A task with one stop is in the history of the day and the new task has
\* a route of other stops.
SingleStopWitness ==
  /\ Generated
  /\ last.result.v.poi_id # ""
  /\ \E i \in SameDayEntries :
       Cardinality(route_ids(last.history.items[i].o.poi_id.s)) = 1

\* The location of a when_where text: the part after the last '|', without
\* the blanks around it.
place_of(when_where) ==
  LET parts == split(when_where, "|") IN strip(parts[Len(parts)])

\* The entries among the last seven of the history handed to the last run
\* that have the photo type and the location of the new task, up to case.
SameTypeAndPlace ==
  LET items == last.history.items
  IN  { i \in 1..Len(items) :
          /\ i > Len(items) - HistoryWindow
          /\ lower(items[i].o.photo_type.s) = lower(last.result.v.photo_type)
          /\ lower(place_of(items[i].o.when_where.s))
               = lower(place_of(last.result.v.when_where)) }

Varied ==
  /\ last.variations = 1
  /\ endswith(last.result.v.title, VariationMarker)

NotVaried ==
  /\ last.variations = 0
  /\ ~endswith(last.result.v.title, VariationMarker)

\* C4 as stated: the task returned by generate_task has had
\* generate_variation applied exactly once and its title ends with the
\* marker if and only if one of the last seven history entries has the same
\* photo type and the same location, compared case-insensitively; otherwise
\* generate_variation is not applied.
VariationIffSameTypeAndPlace ==
  Generated => IF SameTypeAndPlace # {} THEN Varied ELSE NotVaried

\* C4, amended: the same, for an entry with the same photo type that is
\* not empty; an entry whose photo type is empty is skipped, so a session
\* without a photo type is never varied.
VariationIffRepeat ==
  Generated =>
    IF SameTypeAndPlace # {} /\ last.result.v.photo_type # ""
    THEN Varied ELSE NotVaried

\* A varied task whose photo type and location are spelled in another case
\* than in the matching entry.
VariationWitness ==
  /\ Generated
  /\ Varied
  /\ \E i \in SameTypeAndPlace :
       /\ last.history.items[i].o.photo_type.s # last.result.v.photo_type
       /\ place_of(last.history.items[i].o.when_where.s)
            # place_of(last.result.v.when_where)

\* C5: after any sequence of save_task calls on a store that starts empty,
\* the persisted history has min(number of saves, 7) entries and they are
\* the most recently saved tasks in the order they were saved.
HistoryCapInvariant ==
  IF log = <<>> THEN ~file.exists
  ELSE /\ file.exists /\ file.parses
       /\ LET items == file.value.items
              n     == Len(items)
          IN  /\ n = Min2(Len(log), 7)
              /\ \A i \in 1..n :
                   items[i] = json_of_task(log[Len(log) - n + i])

\* More than seven saves happened and the oldest saved task is not the
\* oldest that is kept.
HistoryCapWitness ==
  /\ Len(log) > 7
  /\ Len(file.value.items) = 7
  /\ file.value.items[1] # json_of_task(log[1])

TaskFields ==
  {"date", "title", "summary", "when_where", "photo_type", "camera", "lenses",
   "gear", "lens_rationale", "exposure_presets", "steps",
   "composition_prompts", "contingencies", "success_criteria", "safety_note",
   "color_mode", "weather_summary", "poi_id", "poi_name",
   "total_walk_distance_m"}

\* C6: for every combination of outcomes of the geocoding, POI and weather
\* providers, generate_task returns a task with every field of a Task, a
\* checklist, exposure presets, composition prompts and success criteria;
\* no failure of a provider reaches the caller.
NoProviderFailurePropagates ==
  last.op = "generate" =>
    /\ last.result.t = "return"
    /\ DOMAIN last.result.v = TaskFields
    /\ last.result.v.title # "" /\ last.result.v.summary # ""
    /\ last.result.v.steps # <<>>
    /\ last.result.v.exposure_presets # <<>>
    /\ last.result.v.composition_prompts # <<>>
    /\ last.result.v.success_criteria # <<>>
    /\ last.saved.t = "return"

\* The primary geocoder, both POI providers and both weather providers
\* failed, in four different ways, and the task was returned.
AllProvidersFailedWitness ==
  /\ Generated
  /\ last.answers.g.kind = "neterr" /\ last.answers.o.kind = "ok"
  /\ last.answers.places.kind = "http" /\ last.answers.overpass.kind = "timeout"
  /\ last.answers.openweather.kind = "http"
  /\ last.answers.meteo.kind = "empty"
  /\ last.result.v.poi_id = "" /\ last.result.v.weather_summary = ""

\* No location resolved in the last run: geocode_location returned None.
NothingResolved ==
  /\ last.params.location \in DOMAIN caches.geo
  /\ caches.geo[last.params.location] = None

NoGuideMatches(location) ==
  /\ \A i \in 1..Len(city_guides) : ~contains(lower(location), city_guides[i].key)
  /\ \A i \in 1..Len(generic_guides) :
       ~contains(lower(location), generic_guides[i].key)

\* C7: when no location resolves and the location text matches no curated
\* city and no generic keyword, the checklist of the returned task has
\* steps that literally contain the location text, and the composition
\* prompts are the default prompts.
FallbackStepsNameLocation ==
  (Generated /\ NothingResolved /\ NoGuideMatches(last.params.location)) =>
    /\ \E i \in 1..Len(last.result.v.steps) :
         contains(last.result.v.steps[i], last.params.location)
    /\ last.result.v.composition_prompts = default_prompts

CuratedGuides(location) ==
  { i \in 1..Len(city_guides) : contains(lower(location), city_guides[i].key) }

\* C8: when the static fallback is used (no POI is on the route) and the
\* location text matches a curated city guide, the suggested spots of the
\* guide are at the head of the checklist.
SuggestedSpotsLeadChecklist ==
  (Generated /\ last.result.v.poi_id = ""
     /\ CuratedGuides(last.params.location) # {}) =>
    LET guide == city_guides[CHOOSE i \in CuratedGuides(last.params.location) :
                               \A k \in CuratedGuides(last.params.location) : i <= k]
    IN  /\ guide.suggested_spots # <<>>
        /\ contains(last.result.v.steps[1], "Suggested spots")
        /\ contains(last.result.v.steps[1], guide.suggested_spots[1])

\* An entry of the window that is_recent_repeat compares: an object whose
\* photo_type and when_where are texts that are not empty.
WellFormed(t) ==
  /\ t.j = "obj"
  /\ "photo_type" \in DOMAIN t.o /\ "when_where" \in DOMAIN t.o
  /\ t.o.photo_type.j = "str" /\ t.o.photo_type.s # ""
  /\ t.o.when_where.j = "str" /\ t.o.when_where.s # ""

\* An entry that is_recent_repeat cannot read: no object, or an object
\* whose photo_type and when_where are both truthy and one is no text.
Unreadable(t) ==
  IF t.j # "obj" THEN TRUE
  ELSE /\ ~falsy(dict_get(t, "photo_type", JNull))
       /\ ~falsy(dict_get(t, "when_where", JNull))
       /\ \/ dict_get(t, "photo_type", JNull).j # "str"
          \/ dict_get(t, "when_where", JNull).j # "str"

RepeatWindow ==
  IF rp_history.j = "list" THEN last_n(rp_history.items, HistoryWindow) ELSE <<>>

MatchInWindow ==
  \E i \in 1..Len(RepeatWindow) :
    /\ WellFormed(RepeatWindow[i])
    /\ lower(RepeatWindow[i].o.photo_type.s) = lower(rp_task.photo_type)
    /\ lower(place_of(RepeatWindow[i].o.when_where.s))
         = lower(place_of(rp_task.when_where))

\* C9 as stated: is_recent_repeat never raises, and an entry whose
\* photo_type or when_where is missing or malformed is skipped, so the call
\* returns true exactly when a well-formed entry of the window matches.
MalformedEntriesSkipped ==
  rp_done => rp_result.t = "return" /\ rp_result.v = MatchInWindow

\* C9, amended: is_recent_repeat never raises; an entry whose photo_type or
\* when_where is missing, null or empty is skipped and the other entries of
\* the window are still compared; an entry that is no object, or whose
\* photo_type or when_where is a value other than a text, makes the call
\* return false whatever the other entries of the window are.
RepeatNeverRaises ==
  rp_done =>
    /\ rp_result.t = "return"
    /\ rp_result.v =
         (/\ MatchInWindow
          /\ \A i \in 1..Len(RepeatWindow) : ~Unreadable(RepeatWindow[i]))

\* A matching entry was found after an entry without photo_type and an
\* entry with a null when_where.
RepeatSkipWitness ==
  /\ rp_done
  /\ rp_history = JList(<<EntryNoType, EntryNullWhere, EntryMatch>>)
  /\ rp_result = Return(TRUE)

\* The last call of geocode_location asked the providers.
Geocoded == last.op = "geocode" /\ ~last.hit

PrimarySucceeds == GOOGLE_MAPS_KEY \in secrets /\ last.g.kind = "ok"

SecondarySucceeds == last.o.kind = "ok"

\* C10: geocode_location never raises; a call that asks the providers
\* returns the location of the primary provider exactly when a key is
\* configured and the primary provider answers with a match, else the
\* location of the secondary provider exactly when that one answers with a
\* match, else None.
GeocodeFallbackChain ==
  last.op = "geocode" =>
    /\ last.result.t = "return"
    /\ Geocoded =>
         IF PrimarySucceeds
         THEN /\ last.result.v # None
              /\ last.result.v.source = "Google Maps"
              /\ last.result.v.lat = last.g.lat /\ last.result.v.lon = last.g.lon
         ELSE IF SecondarySucceeds
         THEN /\ last.result.v # None
              /\ last.result.v.source = "OpenStreetMap"
              /\ last.result.v.lat = last.o.lat /\ last.result.v.lon = last.o.lon
         ELSE last.result.v = None

\* The primary provider was asked and timed out, and the location of the
\* secondary provider was returned.
GeocodeFallbackWitness ==
  /\ Geocoded
  /\ last.g.kind = "timeout" /\ last.o.kind = "ok"
  /\ last.result.v # None
  /\ last.result.v.source = "OpenStreetMap"

(***************************************************************************)
(* POI acquisition.                                                        *)
(***************************************************************************)
FetchedPois == last.op = "fetch_pois" /\ last.result.t = "return"

FetchedOverpass == last.op = "fetch_pois_overpass" /\ last.result.t = "return"

\* C11: fetch_pois returns, and at most 40 POIs, whatever the providers
\* answer, from the primary provider as from the fallback.
PoiCapInvariant ==
  last.op = "fetch_pois" =>
    /\ last.result.t = "return"
    /\ Len(last.result.v) <= PoiCap

\* The fallback answered with more than 40 elements and 40 came back.
PoiCapWitness ==
  /\ FetchedPois
  /\ GOOGLE_MAPS_KEY \notin secrets
  /\ last.overpass.kind = "ok"
  /\ Len(last.overpass.elements) > PoiCap
  /\ Len(last.result.v) = PoiCap

NamedFirst(pois) ==
  \A i, j \in 1..Len(pois) : (i < j /\ pois[i].name = "") => pois[j].name = ""

SameGroup(p, q) == (p.name = "") <=> (q.name = "")

\* The position of an element of a list without repetitions.
index_of(list, x) == CHOOSE k \in 1..Len(list) : list[k] = x

\* C12 as stated: in the result of the fallback acquisition the named
\* entries precede the unnamed ones, and the entries of a group are in the
\* order in which the provider returned them.
NamedFirstStable ==
  FetchedOverpass /\ last.overpass.kind = "ok" =>
    LET pois == last.result.v
        kept == overpass_pois(last.overpass.elements)
    IN  /\ NamedFirst(pois)
        /\ \A i, j \in 1..Len(pois) :
             (i < j /\ SameGroup(pois[i], pois[j]))
               => index_of(kept, pois[i]) < index_of(kept, pois[j])

\* C12 amended: the named entries precede the unnamed ones, and the
\* entries of a group are in ascending order of their identifiers.
NamedFirstThenById ==
  FetchedOverpass =>
    LET pois == last.result.v
    IN  /\ NamedFirst(pois)
        /\ \A i, j \in 1..Len(pois) :
             (i < j /\ SameGroup(pois[i], pois[j]))
               => ~str_lt(pois[j].id, pois[i].id)

\* An unnamed element answered first comes last, and the two named ones
\* come in the order of their identifiers, not of the answer.
NamedFirstWitness ==
  /\ FetchedOverpass
  /\ last.overpass = [kind |-> "ok",
                      elements |-> <<ElUnnamed3, ArNamed5, ElNamed7>>]
  /\ [i \in 1..3 |-> last.result.v[i].id] = <<"node/7", "way/5", "node/3">>

\* An element has coordinates of its own, or the center of an area.
Resolvable(e) ==
  \/ e.lat # {} /\ e.lon # {}
  \/ e.center_lat # {} /\ e.center_lon # {}

\* C13: an element of the fallback provider is kept exactly when it has
\* resolvable coordinates, latitude 0 and longitude 0 included.
ResolvableElementsKept ==
  (FetchedOverpass /\ last.overpass.kind = "ok"
     /\ Len(last.overpass.elements) <= PoiCap) =>
    \A k \in 1..Len(last.overpass.elements) :
      LET e == last.overpass.elements[k]
      IN  Resolvable(e)
            <=> \E i \in 1..Len(last.result.v) :
                  last.result.v[i].id = e.type \o "/" \o e.id

(***************************************************************************)
(* POI classification.                                                     *)
(***************************************************************************)
Classified == last.op = "classify_poi_category"

\* A tag mapping without any key.
NoTags == OsmTags("", "", "", "", "", "", "", "")

\* C14: classify_poi_category returns one of the 9 categories for the tag
\* mapping of a POI of either provider, and general for an empty mapping.
CategoryClosure ==
  Classified =>
    /\ last.result \in Categories
    /\ last.poi.tags = NoTags => last.result = "general"

ClassifiedEmptyWitness ==
  Classified /\ last.poi.tags = NoTags /\ last.result = "general"

\* The rules in the order of their priority: a category and the words
\* that select it.
OpenDataRules ==
  << <<"viewpoint", {"viewpoint"}>>,
     <<"museum_art", {"museum", "artwork"}>>,
     <<"market", {"market", "marketplace"}>>,
     <<"park", {"park", "garden"}>>,
     <<"coast", {"beach", "coast", "marina"}>>,
     <<"bridge_pier", {"bridge", "pier"}>>,
     <<"mall", {"mall", "department_store"}>>,
     <<"hospitality", {"cafe", "restaurant", "bar"}>> >>

CommercialRules ==
  << <<"park", {"park", "garden"}>>,
     <<"museum_art", {"museum", "art_gallery"}>>,
     <<"mall", {"shopping_mall", "department_store"}>>,
     <<"hospitality", {"restaurant", "cafe", "bar"}>>,
     <<"viewpoint", {"tourist_attraction", "point_of_interest"}>>,
     <<"coast", {"beach", "natural_feature"}>>,
     <<"bridge_pier", {"bridge"}>> >>

\* The category of the first rule one of whose words occurs in a hint.
FirstMatch(rules, hints) ==
  LET hit(k) == \E w \in rules[k][2], h \in hints : contains(lower(h), w)
  IN  IF \E k \in 1..Len(rules) : hit(k)
      THEN rules[CHOOSE k \in 1..Len(rules) :
                   hit(k) /\ \A j \in 1..(k - 1) : ~hit(j)][1]
      ELSE "general"

FromGoogle(poi) == "source" \in DOMAIN poi

\* C15: classify_poi_category is the first matching rule of the rule set
\* of the provider the POI came from: the open-data rules for an
\* OpenStreetMap POI, the commercial rules for a Google POI.
ClassifyFirstMatchByOrigin ==
  Classified =>
    LET tags == last.poi.tags
    IN  last.result =
          IF FromGoogle(last.poi)
          THEN FirstMatch(CommercialRules, Range(tags.types))
          ELSE FirstMatch(OpenDataRules,
                          {tags.tourism, tags.amenity, tags.leisure,
                           tags.natural, tags.man_made, tags.shop})

(***************************************************************************)
(* Candidate filtering before routing.                                     *)
(***************************************************************************)
\* What fetch_pois returned to the last run of generate_task, a first run.
FetchedByRun ==
  fetch_pois(secrets, last.answers.places,
             fetch_pois_overpass(last.answers.overpass)).v

Located ==
  /\ Generated
  /\ last.params.location \in DOMAIN caches.geo
  /\ caches.geo[last.params.location] # None

\* C16: an unnamed POI is left out of the candidates exactly when a named
\* candidate is available; when every candidate is unnamed the route is
\* built from the unnamed ones.
UnnamedEligibleWithoutNamed ==
  (Located /\ last.history = JList(<<>>)) =>
    LET pois   == FetchedByRun
        ids(S) == { pois[i].id : i \in S }
        named  == { i \in 1..Len(pois) : pois[i].name # "" }
        route  == route_ids(last.result.v.poi_id)
    IN  IF named # {} THEN route # {} /\ route \subseteq ids(named)
        ELSE IF pois # <<>> THEN route # {} /\ route \subseteq ids(1..Len(pois))
        ELSE route = {}

Exposed == last.op = "generate_exposures"

HasEntry(list, word) == \E i \in 1..Len(list) : contains(list[i], word)

GoldenOnlyAtGolden ==
  HasEntry(last.result, "Golden") <=> last.time_of_day \in {"golden hour", "blue hour"}

NightOnlyAtNight == HasEntry(last.result, "Night") <=> last.time_of_day = "night"

EntriesOf(time_of_day) ==
  3 + (IF time_of_day \in {"golden hour", "blue hour", "night"} THEN 1 ELSE 0)

\* C18 as stated: for digital and for film sessions alike the
\* golden/blue-hour entry is in the list only at golden hour or blue hour,
\* and the night entry only at night.
ExposureExtrasConditional ==
  Exposed => GoldenOnlyAtGolden /\ NightOnlyAtNight

\* C18 amended: for a digital session the list is the three base entries,
\* then the golden/blue-hour entry only at golden hour or blue hour and
\* the night entry only at night; for a film session the list is the same
\* five entries at every time of day.
ExposureExtrasConditionalDigital ==
  Exposed =>
    IF last.is_digital
    THEN /\ GoldenOnlyAtGolden /\ NightOnlyAtNight
         /\ Len(last.result) = EntriesOf(last.time_of_day)
         /\ SubSeq(last.result, 1, 3)
              = generate_exposures(TRUE, last.film_iso, "midday")
    ELSE /\ Len(last.result) = 5
         /\ HasEntry(last.result, "Golden") /\ HasEntry(last.result, "Night")
         /\ last.result = generate_exposures(FALSE, last.film_iso, "midday")

\* A digital session at night: the base list and the night entry.
ExposureNightWitness ==
  /\ Exposed /\ last.is_digital /\ last.time_of_day = "night"
  /\ Len(last.result) = 4
  /\ contains(last.result[4], "Night")

KeeperTokens == {"10+", "15+", "25+", "40+"}

\* The criteria that carry a keeper-count token.
Carriers(criteria, token) ==
  { i \in 1..Len(criteria) : contains(criteria[i], token) }

\* The number of the keeper-count token of a list of criteria.
KeeperNumber(criteria) ==
  CHOOSE n \in {10, 15, 25, 40} : Carriers(criteria, str(n) \o "+") # {}

\* C19: the keeper-count token is "10+" up to 60 minutes, "15+" up to
\* 120, "25+" up to 240 and "40+" above, exactly one criterion carries it
\* whatever the photo type, and a longer session never has a smaller one.
KeeperCountSteps ==
  last.op = "generate_success_criteria" =>
    LET d     == last.params.duration
        token == IF d <= 60 THEN "10+" ELSE IF d <= 120 THEN "15+"
                 ELSE IF d <= 240 THEN "25+" ELSE "40+"
    IN  /\ Cardinality(Carriers(last.result, token)) = 1
        /\ \A t \in KeeperTokens \ {token} : Carriers(last.result, t) = {}
        /\ \A shorter \in { x \in Durations : x <= d } :
             KeeperNumber(generate_success_criteria(
                            [last.params EXCEPT !.duration = shorter]))
               <= KeeperNumber(last.result)

\* A session of exactly 120 minutes of a photo type no list is kept for.
KeeperCountWitness ==
  /\ last.op = "generate_success_criteria"
  /\ last.params.duration = 120 /\ last.params.photo_type = "macro"
  /\ Carriers(last.result, "15+") # {}

\* The focal lengths of the lenses the sidebar offers (the short end of
\* the zoom).
FocalLength ==
  [l \in {"35mm F2", "70-300mm", "28mm", "50mm"} |->
     CASE l = "35mm F2" -> 35 [] l = "70-300mm" -> 70
       [] l = "28mm" -> 28 [] l = "50mm" -> 50]

\* C20: with two different lenses, a step with a wide keyword is suffixed
\* with the lens of the narrower focal length, a step with a tele keyword
\* and no wide keyword with the longer one, every other step with one of
\* the two.
LensBySuffix ==
  (last.op = "lens_suggestions" /\ Len(last.lenses) = 2) =>
    LET a      == last.lenses[1]
        b      == last.lenses[2]
        short  == IF FocalLength[a] < FocalLength[b] THEN a ELSE b
        long   == IF FocalLength[a] < FocalLength[b] THEN b ELSE a
    IN  /\ Len(last.result) = Len(last.steps)
        /\ \A i \in 1..Len(last.steps) :
             LET s == lower(last.steps[i])
             IN  IF any_in(WideKeywords, s)
                 THEN last.result[i] = last.steps[i] \o " Use " \o short
                 ELSE IF any_in(TeleKeywords, s)
                 THEN last.result[i] = last.steps[i] \o " Use " \o long
                 ELSE last.result[i] \in
                        { last.steps[i] \o " Try with " \o l : l \in {a, b} }

\* A file whose content is not an array of task records.
Malformed(f) == f \in MalformedFiles

\* C21: on a malformed history file load_history returns the empty
\* history, and a save_task that follows returns and leaves a history of
\* exactly the saved task.
MalformedHistoryIsEmpty ==
  [][ Malformed(file) =>
        /\ last'.op = "load" => last'.result = JList(<<>>)
        /\ last'.op = "save" =>
              /\ last'.saved = Return(JList(<<json_of_task(last'.task)>>))
              /\ file' = FileOf(JList(<<json_of_task(last'.task)>>)) ]_vars

Measured == last.op = "haversine_distance"

\* C22: haversine_distance is 0 for two points at the same coordinate,
\* is the same with its two points exchanged, and is 111,195 m to within
\* 10 m for two points 1 degree of latitude apart on one meridian
\* (distances in millimetres).
HaversineContract ==
  Measured =>
    /\ (last.lat1 = last.lat2 /\ last.lon1 = last.lon2) => last.result = 0
    /\ last.result
         = haversine_distance(last.lat2, last.lon2, last.lat1, last.lon1)
    /\ (last.lon1 = last.lon2 /\ Abs(last.lat1 - last.lat2) = Degree)
         => Abs(last.result - 111195000) <= 10000

\* From 1 degree south to the equator along the meridian of 1 degree east.
HaversineDegreeWitness ==
  /\ Measured
  /\ last.lat1 = -Degree /\ last.lat2 = 0
  /\ last.lon1 = Degree /\ last.lon2 = Degree
  /\ last.result > 0

\* The entries of a guide table whose key is in the location text.
Matching(table, location) ==
  { i \in 1..Len(table) : contains(lower(location), table[i].key) }

Least(S) == CHOOSE i \in S : \A j \in S : i <= j

\* The steps of the guide of highest priority for a location: the first
\* curated city, else the first generic keyword, else none.
GuideSteps(location) ==
  IF Matching(city_guides, location) # {}
  THEN city_guides[Least(Matching(city_guides, location))].specific_steps
  ELSE IF Matching(generic_guides, location) # {}
  THEN generic_guides[Least(Matching(generic_guides, location))].steps
  ELSE <<>>

GuideHeader == "**Location-specific tasks:**"

\* Every step of every guide, as the checklist shows it.
GuideBullets ==
  UNION { { "  * " \o g : g \in Range(city_guides[i].specific_steps) } :
          i \in 1..Len(city_guides) }
  \cup UNION { { "  * " \o g : g \in Range(generic_guides[i].steps) } :
               i \in 1..Len(generic_guides) }

\* C23: a task without a route starts with the steps (at most 5) of the
\* guide of highest priority for its location, curated city before
\* generic keyword before none; a task with a route has no step of any
\* location guide.
LocationGuideOnlyWithoutRoute ==
  Generated =>
    LET steps == last.result.v.steps
        guide == first_n(GuideSteps(last.params.location), 5)
    IN  IF last.result.v.poi_id = ""
        THEN IF guide = <<>>
             THEN \A i \in 1..Len(steps) : ~startswith(steps[i], GuideHeader)
             ELSE /\ Len(steps) >= Len(guide) + 2
                  /\ startswith(steps[1], GuideHeader)
                  /\ \A i \in 1..Len(guide) :
                       startswith(steps[i + 1], "  * " \o guide[i])
                  /\ \A i \in (Len(guide) + 2)..Len(steps) :
                       \A b \in GuideBullets : ~startswith(steps[i], b)
        ELSE \A i \in 1..Len(steps) :
               /\ ~startswith(steps[i], GuideHeader)
               /\ \A b \in GuideBullets : ~startswith(steps[i], b)

\* "Melbourne CBD" holds the city key "melbourne cbd" and the keyword
\* "cbd"; without a route the checklist starts with the city's steps.
LocationGuideWitness ==
  /\ Generated
  /\ last.params.location = "Melbourne CBD"
  /\ last.result.v.poi_id = ""
  /\ Matching(generic_guides, last.params.location) # {}
  /\ startswith(last.result.v.steps[2],
                "  * " \o city_guides[1].specific_steps[1])

VariationCalled == last.op = "generate_variation"

Count(list, x) == Cardinality({ i \in 1..Len(list) : list[i] = x })

\* The same elements, each as many times.
Permutation(a, b) ==
  /\ Len(a) = Len(b)
  /\ \A x \in Range(a) \cup Range(b) : Count(a, x) = Count(b, x)

\* Elements of b, none more often than b has it.
Selection(a, b) == \A x \in Range(a) : Count(a, x) <= Count(b, x)

RerolledFields ==
  {"steps", "composition_prompts", "exposure_presets", "title", "summary"}

\* C24: the task generate_variation returns has the steps and the
\* composition prompts of its input in some order, the exposure presets
\* unchanged when the input has at most 3 and else min(4, n) of its n, title
\* and summary extended by the marker and the rotation note, and every
\* other field as in the input.
VariationIsReroll ==
  VariationCalled =>
    LET base == last.base_task
        task == last.result
        n    == Len(base.exposure_presets)
    IN  /\ Permutation(task.steps, base.steps)
        /\ Permutation(task.composition_prompts, base.composition_prompts)
        /\ IF n <= 3 THEN task.exposure_presets = base.exposure_presets
           ELSE /\ Len(task.exposure_presets) = Min2(4, n)
                /\ Selection(task.exposure_presets, base.exposure_presets)
        /\ task.title = base.title \o VariationMarker
        /\ task.summary = base.summary \o RotationNote
        /\ \A f \in DOMAIN base \ RerolledFields : task[f] = base[f]

\* A film session with a route: 5 presets become 4, the steps are moved.
VariationRerollWitness ==
  /\ VariationCalled
  /\ Len(last.base_task.exposure_presets) = 5
  /\ Len(last.result.exposure_presets) = 4
  /\ last.base_task.poi_id # ""
  /\ last.result.steps # last.base_task.steps
  /\ Len(last.result.composition_prompts) > 5

\* C26: after generate_variation the input task has the steps, exposure
\* presets, composition prompts, title and summary it had before, in the
\* same order, and no list is shared between it and the returned task.
VariationLeavesInput ==
  VariationCalled =>
    /\ \A f \in RerolledFields : last.base_after[f] = last.base_task[f]
    /\ last.shared = {}

\* The entry of the composition-prompt table with a key.
GenreOf(key) ==
  CHOOSE i \in 1..Len(composition_prompts) : composition_prompts[i].key = key

\* C27: for a photo type equal to a key of the composition-prompt table,
\* get_composition_prompts returns prompts of that key's own list.
GenreListReached ==
  (last.op = "get_composition_prompts" /\ last.photo_type \in GenreKeys) =>
    Range(last.result)
      \subseteq Range(composition_prompts[GenreOf(last.photo_type)].prompts)

\* C28: a failure is not memoized: a call of geocode_location that is
\* answered from the cache, without asking a provider, does not return
\* the NotFound of an earlier call whose providers failed.
FailureNotMemoized ==
  (last.op = "geocode" /\ last.hit) => last.result.v # None

\* C25: save_task is a read-modify-write without a lock: what a session
\* writes is the history it loaded and its own task, the last 7 of them,
\* whatever another session wrote in between; so a state is reached where
\* a task whose save returned is not in the file although fewer than 7
\* saves followed it.
UnprotectedReadModifyWrite ==
  [][ \A s \in Sessions :
        (s_pc[s] = "loaded" /\ s_pc'[s] = "idle") =>
          file' = FileOf(JList(last_n(Append(s_history[s].items,
                                             json_of_task(s_task[s])), 7))) ]_vars

\* A lost update: fewer tasks in the file than saves that returned, and
\* fewer than 7 saves in all.
LostUpdateWitness ==
  /\ file.exists
  /\ Len(log) < 7
  /\ Len(file.value.items) < Len(log)
  /\ \E i \in 1..Len(log) :
       json_of_task(log[i]) \notin Range(file.value.items)

IsStopHeader(step) == startswith(step, "**Stop ")

IsBullet(step) == startswith(step, "  * ")

\* One of the generic steps of a session of this duration.
IsGeneric(step, duration) ==
  \E b \in Range(base_steps_of(duration)) : startswith(step, b)

\* C29: in the checklist of a returned task with a route the route header
\* is first, the k-th stop header is that of Stop k, every guidance step
\* follows a stop header at a distance of at most 4 with only guidance
\* steps in between, and no route-derived step follows a generic step;
\* also for a task returned after the variation re-roll.
RouteChecklistOrdered ==
  (Generated /\ last.result.v.poi_id # "") =>
    LET steps == last.result.v.steps
        heads == { i \in 1..Len(steps) : IsStopHeader(steps[i]) }
    IN  /\ startswith(steps[1], "**Walkable Route (")
        /\ heads # {}
        /\ \A i \in heads :
             startswith(steps[i],
                        "**Stop " \o str(Cardinality({ j \in heads : j <= i }))
                        \o ": ")
        /\ \A i \in 1..Len(steps) :
             IsBullet(steps[i]) =>
               \E h \in heads :
                 /\ h < i /\ i - h <= 4
                 /\ \A j \in (h + 1)..i : IsBullet(steps[j])
        /\ \A i, j \in 1..Len(steps) :
             (i < j /\ IsGeneric(steps[i], last.params.duration))
               => IsGeneric(steps[j], last.params.duration)

\* How often sub is in text.
Occurrences(text, sub) ==
  Cardinality({ i \in 1..(Len(text) - Len(sub) + 1) :
                  SubSeq(text, i, i + Len(sub) - 1) = sub })

MarkedOnce(task_title, task_summary) ==
  /\ Occurrences(task_title, "(Weekly Variation)") <= 1
  /\ Occurrences(task_summary,
                 "Rotated creative variation for repeat location.") <= 1

\* C30: over every sequence of runs of the generate handler the title of
\* every task, the one returned and those in the history file, holds the
\* marker "(Weekly Variation)" at most once and its summary the rotation
\* note at most once.
MarkerAtMostOnce ==
  /\ Generated => MarkedOnce(last.result.v.title, last.result.v.summary)
  /\ file.exists =>
       \A i \in 1..Len(file.value.items) :
         MarkedOnce(file.value.items[i].o.title.s,
                    file.value.items[i].o.summary.s)

\* The third run for the same photo type and place: the history holds a
\* variation and the task returned is a variation.
MarkerWitness ==
  /\ Generated /\ gens = 3 /\ last.variations = 1
  /\ \E i \in 1..Len(last.history.items) :
       contains(last.history.items[i].o.title.s, "(Weekly Variation)")
  /\ Occurrences(last.result.v.title, "(Weekly Variation)") = 1
  /\ Occurrences(last.result.v.summary,
                 "Rotated creative variation for repeat location.") = 1

=========================================================================
